---- MODULE Spec2Model ----
(***************************************************************************)
(* A model of pg-boss' manager (src/src/manager.js) running against the    *)
(* partitioned job table whose unique partial indexes are declared in      *)
(* src/src/migrationStore.js.  The SQL plans (plans.js), the worker loop   *)
(* (worker.js) and the argument checks (attorney.js) are not part of the   *)
(* sources at hand; their behaviour is taken from the written              *)
(* specification and marked as such in MODEL_MAP.json.                     *)
(*                                                                         *)
(* The migration store (src/src/migrationStore.js) is modelled as the      *)
(* plans it returns and their runs against the schema's version table.     *)
(*                                                                         *)
(* Time is counted in whole seconds.  Job ids are positions in the job     *)
(* table; a job's data is the payload the producer handed over.            *)
(***************************************************************************)
EXTENDS Integers, Sequences, FiniteSets, TLC

VARIABLES
    jobs,       \* the job table: a sequence of rows, a row's id is its position
    now,        \* the database clock, in seconds
    fetching,   \* per session: the fetch statement in progress and its row locks
    fetched,    \* the rows the last fetch call that ended has returned
    cmd,        \* the last API call made and the response it returned
    sends,      \* the sendThrottled / sendDebounced calls made, and their insert attempts
    subscriptions, \* the subscription table: pairs of an event and a queue name
    publishes,  \* the publish calls made: the sends each has invoked and their outcomes
    manager,    \* the manager: its stopped flag, its worker registry, its failWip call,
                \* its wip timestamp and the events it has emitted
    workers,    \* per worker id: the worker's queue, state and place in its loop, and
                \* whether the database has rejected the statement of its last fetch
    abandoned,  \* the handlers that lost the race against their timer and still run
    reports,    \* the complete and fail calls made that have not reached the database
    hist,       \* per job: the states it has been in under the worker specifications
    done,       \* the jobs of singleton queues that workers have completed, in that order
    migrations, \* the migration list a caller of the migration store holds, and its calls
    database,   \* the schema: its stored version, the statements applied, the advisory lock
    migrators,  \* per migrator: the plan it runs and its place in it
    cache,      \* this.queues of the manager (null or a map by name), and whether start() has run
    catalog,    \* the names in the queue table of the database under SpecCache
    refreshes,  \* the onCacheQueues calls in flight
    lookups     \* per caller: its getQueueCache call

dbVars == <<jobs, now>>
apiVars == <<fetching, fetched, cmd>>
pubVars == <<subscriptions, publishes>>
sendVars == <<sends, subscriptions, publishes>>
migVars == <<migrations, database, migrators>>
cacheVars == <<cache, catalog, refreshes, lookups>>
workVars == <<manager, workers, abandoned, reports, hist, done>>
vars == <<jobs, now, fetching, fetched, cmd, sends, subscriptions, publishes, manager, workers, abandoned, reports, hist, done,
          migrations, database, migrators, cache, catalog, refreshes, lookups>>

----------------------------------------------------------------------------
(* Bounds of the model *)

MaxJobs == 2        \* rows of the job table under Spec
CmdMaxJobs == 1     \* jobs sent under SpecCmd
CmdMaxDead == 1     \* jobs forwarded to the dead letter queue under SpecCmd
SendMaxCalls == 3   \* sendThrottled / sendDebounced calls under SpecThrottle, SpecDebounce
SendMaxTime == 3    \* the last second of the clock under SpecThrottle, SpecDebounce
SendSeconds == 2    \* the width of a time bucket: the seconds argument of the calls
WorkMaxJobs == 2    \* jobs sent to a queue under the worker specifications
WorkMaxTime == 2    \* the last second of the clock under the worker specifications
RetryLimit == 1     \* the retry limit of queue r
SingleMaxTime == 1  \* the last second of the clock under SpecSingleton
PubMaxCalls == 2    \* publish calls under SpecPublish
WipMaxTime == 6     \* the last second of the clock under SpecWip
WipMaxJobs == 1     \* jobs sent to a queue under SpecWip
MigMaxCalls == 2    \* calls of the migration store under SpecMigration
CacheMaxRefreshes == 2 \* onCacheQueues calls in flight at a time under SpecCache
DebMaxSeconds == 3  \* the largest singletonSeconds under SpecStartAfter
DebMaxTime == 8     \* the last second of Date.now() under SpecStartAfter

----------------------------------------------------------------------------
(* Values *)

NoKey == "<null>"
NoTime == -1
NullOutput == [kind |-> "null", msg |-> ""]

Min(a, b) == IF a < b THEN a ELSE b
Max(a, b) == IF a > b THEN a ELSE b

\* CREATE TYPE job_state AS ENUM ('created','retry','active','completed','cancelled','failed')
job_state(s) ==
    CASE s = "created" -> 1
      [] s = "retry" -> 2
      [] s = "active" -> 3
      [] s = "completed" -> 4
      [] s = "cancelled" -> 5
      [] s = "failed" -> 6

----------------------------------------------------------------------------
(* The queue registry: the rows createQueue has written *)

INTERNAL_QUEUES == {"__pgboss__send-it"}

QueueNames == {"q", "r", "s", "p", "dl", "h", "t", "u"} \cup INTERNAL_QUEUES

queueTable ==
    [n \in QueueNames |->
        CASE n = "q" -> [name |-> n, policy |-> "standard", retry_limit |-> 1,
                         expire_seconds |-> 1, dead_letter |-> "dl"]
          [] n = "r" -> [name |-> n, policy |-> "standard", retry_limit |-> RetryLimit,
                         expire_seconds |-> 1, dead_letter |-> "dl"]
          [] n = "s" -> [name |-> n, policy |-> "singleton", retry_limit |-> 1,
                         expire_seconds |-> 2, dead_letter |-> NoKey]
          [] n = "h" -> [name |-> n, policy |-> "short", retry_limit |-> 1,
                         expire_seconds |-> 1, dead_letter |-> NoKey]
          [] n = "t" -> [name |-> n, policy |-> "stately", retry_limit |-> 1,
                         expire_seconds |-> 1, dead_letter |-> NoKey]
          [] n = "u" -> [name |-> n, policy |-> "standard", retry_limit |-> 1,
                         expire_seconds |-> 1, dead_letter |-> NoKey]
          [] OTHER   -> [name |-> n, policy |-> "standard", retry_limit |-> 0,
                         expire_seconds |-> 1, dead_letter |-> NoKey]]

getQueueCache(name) == queueTable[name]

----------------------------------------------------------------------------
(* The unique partial indexes of the job table.  A unique index treats     *)
(* NULL keys as distinct from each other.                                  *)

job_policy_short_on_active(t) ==
    \A i, j \in DOMAIN t :
        (i # j /\ t[i].state = "active" /\ t[i].policy = "short"
               /\ t[j].state = "active" /\ t[j].policy = "short")
            => t[i].name # t[j].name

job_policy_short(t) ==
    \A i, j \in DOMAIN t :
        (i # j /\ t[i].state = "created" /\ t[i].policy = "short"
               /\ t[j].state = "created" /\ t[j].policy = "short")
            => t[i].name # t[j].name

job_policy_singleton_on_created(t) ==
    \A i, j \in DOMAIN t :
        (i # j /\ t[i].state = "created" /\ t[i].policy = "singleton"
               /\ t[j].state = "created" /\ t[j].policy = "singleton")
            => t[i].name # t[j].name

job_policy_singleton(t) ==
    \A i, j \in DOMAIN t :
        (i # j /\ t[i].state = "active" /\ t[i].policy = "singleton"
               /\ t[j].state = "active" /\ t[j].policy = "singleton")
            => t[i].name # t[j].name

job_policy_stately_below_active(t) ==
    \A i, j \in DOMAIN t :
        (i # j /\ job_state(t[i].state) < job_state("active") /\ t[i].policy = "stately"
               /\ job_state(t[j].state) < job_state("active") /\ t[j].policy = "stately")
            => <<t[i].name, t[i].state>> # <<t[j].name, t[j].state>>

job_policy_stately(t) ==
    \A i, j \in DOMAIN t :
        (i # j /\ job_state(t[i].state) <= job_state("active") /\ t[i].policy = "stately"
               /\ job_state(t[j].state) <= job_state("active") /\ t[j].policy = "stately")
            => <<t[i].name, t[i].state>> # <<t[j].name, t[j].state>>

job_throttle_key_below_completed(t) ==
    \A i, j \in DOMAIN t :
        (i # j /\ job_state(t[i].state) < job_state("completed") /\ t[i].singleton_on = NoTime
               /\ job_state(t[j].state) < job_state("completed") /\ t[j].singleton_on = NoTime
               /\ t[i].singleton_key # NoKey /\ t[j].singleton_key # NoKey)
            => <<t[i].name, t[i].singleton_key>> # <<t[j].name, t[j].singleton_key>>

job_throttle_key(t) ==
    \A i, j \in DOMAIN t :
        (i # j /\ job_state(t[i].state) <= job_state("completed") /\ t[i].singleton_on = NoTime
               /\ job_state(t[j].state) <= job_state("completed") /\ t[j].singleton_on = NoTime
               /\ t[i].singleton_key # NoKey /\ t[j].singleton_key # NoKey)
            => <<t[i].name, t[i].singleton_key>> # <<t[j].name, t[j].singleton_key>>

job_throttle_on(t) ==
    \A i, j \in DOMAIN t :
        (i # j /\ job_state(t[i].state) <= job_state("completed") /\ t[i].singleton_on # NoTime
               /\ job_state(t[j].state) <= job_state("completed") /\ t[j].singleton_on # NoTime)
            => <<t[i].name, t[i].singleton_on, t[i].singleton_key>>
                 # <<t[j].name, t[j].singleton_on, t[j].singleton_key>>

\* whether table t satisfies every unique index; a statement whose result
\* does not is rejected by the database
UniqueIndexesHold(t) ==
    /\ job_policy_short(t)
    /\ job_policy_singleton(t)
    /\ job_policy_stately(t)
    /\ job_throttle_key(t)
    /\ job_throttle_on(t)

----------------------------------------------------------------------------
(* The SQL plans, as statements over the job table.  A statement yields    *)
(* [ok, table, rows]: ok is FALSE when the database rejects it with a      *)
(* unique violation, and then the table is left as it was.                 *)

Statement(t, changed, rows) ==
    IF UniqueIndexesHold(changed)
    THEN [ok |-> TRUE, table |-> changed, rows |-> rows]
    ELSE [ok |-> FALSE, table |-> t, rows |-> {}]

\* the row insertJob builds: singleton_on = floor((now+offset)/window)*window
\* when singletonSeconds is set; retry, expiration and policy come from the queue
NewRow(queue, data, priority, startAfter, singletonKey, singletonSeconds, singletonOffset, t_now) ==
    [name |-> queue.name,
     state |-> "created",
     priority |-> priority,
     data |-> data,
     retry_limit |-> queue.retry_limit,
     retry_count |-> 0,
     start_after |-> t_now + startAfter,
     singleton_key |-> singletonKey,
     singleton_on |-> IF singletonSeconds = 0 THEN NoTime
                      ELSE ((t_now + singletonOffset) \div singletonSeconds) * singletonSeconds,
     expire_in |-> queue.expire_seconds,
     created_on |-> t_now,
     completed_on |-> NoTime,
     output |-> NullOutput,
     policy |-> queue.policy]

\* insertJob: INSERT ... ON CONFLICT DO NOTHING RETURNING id
insertJob(t, row) ==
    IF UniqueIndexesHold(Append(t, row))
    THEN [ok |-> TRUE, table |-> Append(t, row), rows |-> {Len(t) + 1}]
    ELSE [ok |-> TRUE, table |-> t, rows |-> {}]

\* insertJobs: one INSERT of several rows.  Rows that collide with a unique
\* index are either skipped one by one (conflict = "skip") or make the
\* database reject the statement as a whole (conflict = "reject")
RECURSIVE insertJobs_skip(_, _)
insertJobs_skip(t, rows) ==
    IF rows = <<>> THEN [ok |-> TRUE, table |-> t, rows |-> {}]
    ELSE LET first == insertJob(t, Head(rows))
             rest == insertJobs_skip(first.table, Tail(rows))
         IN [ok |-> TRUE, table |-> rest.table, rows |-> first.rows \cup rest.rows]

insertJobs(t, rows, conflict) ==
    IF conflict = "skip" THEN insertJobs_skip(t, rows)
    ELSE Statement(t, t \o rows, (Len(t) + 1)..(Len(t) + Len(rows)))

\* ORDER BY priority DESC, created_on ASC
FetchBefore(a, b) ==
    \/ a.priority > b.priority
    \/ a.priority = b.priority /\ a.created_on < b.created_on

\* the rows a fetch may work on: state < active, start_after reached, and
\* (SKIP LOCKED) not locked by a statement in progress
FetchCandidates(t, name, locked, t_now) ==
    {i \in DOMAIN t : /\ t[i].name = name
                      /\ job_state(t[i].state) < job_state("active")
                      /\ t[i].start_after <= t_now
                      /\ i \notin locked}

\* fetchNextJob, first half: SELECT ... ORDER BY ... LIMIT limit FOR UPDATE SKIP LOCKED;
\* rows that tie in the order are taken in any order
fetchNextJob_select(t, name, limit, locked, t_now) ==
    LET cands == FetchCandidates(t, name, locked, t_now)
    IN {S \in SUBSET cands :
            /\ Cardinality(S) = Min(limit, Cardinality(cands))
            /\ \A i \in S, j \in cands \ S : ~FetchBefore(t[j], t[i])}

\* fetchNextJob, second half: UPDATE ... SET state = 'active' ... RETURNING
fetchNextJob_update(t, rows, t_now) ==
    Statement(t,
              [i \in DOMAIN t |-> IF i \in rows THEN [t[i] EXCEPT !.state = "active"] ELSE t[i]],
              rows)

IdSet(ids) == {ids[k] : k \in DOMAIN ids}

\* the rows of queue `name` among ids that are in one of the states `from`
Matching(t, name, ids, from) ==
    {i \in DOMAIN t : i \in IdSet(ids) /\ t[i].name = name /\ t[i].state \in from}

completeJobs(t, name, ids, output, t_now) ==
    LET hit == Matching(t, name, ids, {"active"})
    IN Statement(t,
                 [i \in DOMAIN t |->
                     IF i \in hit
                     THEN [t[i] EXCEPT !.state = "completed", !.completed_on = t_now,
                                       !.output = output]
                     ELSE t[i]],
                 hit)

cancelJobs(t, name, ids, t_now) ==
    LET hit == Matching(t, name, ids, {"created", "retry", "active"})
    IN Statement(t,
                 [i \in DOMAIN t |->
                     IF i \in hit
                     THEN [t[i] EXCEPT !.state = "cancelled", !.completed_on = t_now]
                     ELSE t[i]],
                 hit)

resumeJobs(t, name, ids) ==
    LET hit == Matching(t, name, ids, {"completed", "cancelled", "failed"})
    IN Statement(t,
                 [i \in DOMAIN t |->
                     IF i \in hit
                     THEN [t[i] EXCEPT !.state = "created", !.completed_on = NoTime]
                     ELSE t[i]],
                 hit)

\* the rows a set of failed jobs forwards to their dead letter queue,
\* in the order of their ids
RECURSIVE DeadLetterRows(_, _, _, _)
DeadLetterRows(t, dead, deadLetter, t_now) ==
    IF dead = {} \/ deadLetter = NoKey THEN <<>>
    ELSE LET i == CHOOSE x \in dead : \A y \in dead : x <= y
         IN <<NewRow(queueTable[deadLetter], t[i].data, 0, 0, NoKey, 0, 0, t_now)>>
              \o DeadLetterRows(t, dead \ {i}, deadLetter, t_now)

\* failJobsById: an active job goes to retry while retry_count < retry_limit,
\* else to failed, and then its payload is forwarded to the queue's dead letter queue
failJobsById(t, queue, ids, output, t_now) ==
    LET hit == Matching(t, queue.name, ids, {"active"})
        dead == {i \in hit : ~(t[i].retry_count < t[i].retry_limit)}
        upd == [i \in DOMAIN t |->
                   IF i \in hit /\ i \notin dead
                   THEN [t[i] EXCEPT !.state = "retry", !.retry_count = @ + 1,
                                     !.start_after = t_now, !.output = output]
                   ELSE IF i \in dead
                   THEN [t[i] EXCEPT !.state = "failed", !.completed_on = t_now,
                                     !.output = output]
                   ELSE t[i]]
    IN Statement(t, upd \o DeadLetterRows(t, dead, queue.dead_letter, t_now), hit)

----------------------------------------------------------------------------
(* The manager's job operations (manager.js), as functions of the table *)

\* mapCompletionDataArg: null, undefined and functions are stored as null,
\* objects (errors among them) as they are, any other value as {value: data}
mapCompletionDataArg(data) ==
    IF data.kind \in {"null", "undefined", "function"} THEN NullOutput
    ELSE IF data.kind \in {"object", "error"} THEN [kind |-> "object", msg |-> data.msg]
    ELSE [kind |-> "value", msg |-> data.msg]

mapCommandResponse_affected_is_requested(ids, result) ==
    [jobs |-> ids, requested |-> Len(ids), affected |-> Len(ids)]

\* mapCommandResponse: affected is the count the statement returned
mapCommandResponse(ids, result) ==
    [jobs |-> ids,
     requested |-> Len(ids),
     affected |-> IF result.ok THEN Cardinality(result.rows) ELSE 0]

\* a job operation yields the statement's outcome and, unless the statement
\* was rejected (the call then throws), the response
Command(ids, result) ==
    [ok |-> result.ok, table |-> result.table,
     response |-> mapCommandResponse(ids, result)]

complete(t, name, ids, data, t_now) ==
    Command(ids, completeJobs(t, getQueueCache(name).name, ids, mapCompletionDataArg(data), t_now))

fail_without_queue(t, name, ids, data, t_now) ==
    Command(ids, failJobsById(t, [getQueueCache(name) EXCEPT !.dead_letter = NoKey], ids,
                              mapCompletionDataArg(data), t_now))

fail(t, name, ids, data, t_now) ==
    Command(ids, failJobsById(t, getQueueCache(name), ids, mapCompletionDataArg(data), t_now))

cancel(t, name, ids, t_now) ==
    Command(ids, cancelJobs(t, getQueueCache(name).name, ids, t_now))

resume(t, name, ids) ==
    Command(ids, resumeJobs(t, getQueueCache(name).name, ids))

\* createJob, one insert attempt: the id of the new job, or none
createJob_insert(t, name, data, options, singletonOffset, t_now) ==
    insertJob(t, [NewRow(getQueueCache(name), data, options.priority, options.startAfter,
                         options.singletonKey, options.singletonSeconds, singletonOffset,
                         t_now)
                     EXCEPT !.expire_in = IF options.expireIn = 0 THEN @ ELSE options.expireIn])

\* insert(name, jobs): the ids of the rows inserted, or null (the empty set)
\* when there are none; a statement the database rejects makes the call throw
insert(t, name, jobsArg, conflict, t_now) ==
    LET queue == getQueueCache(name)
        result == insertJobs(t, [k \in DOMAIN jobsArg |->
                                    NewRow(queue, jobsArg[k], 0, 0, NoKey, 0, 0, t_now)],
                             conflict)
    IN [ok |-> result.ok, table |-> result.table, ids |-> result.rows]

\* the clock offset to the database the timekeeper has measured (ms)
clockSkew == 0

getDebounceStartAfter_unincremented(singletonSeconds, clockOffset, t_now) ==
    LET debounceInterval == singletonSeconds * 1000
        now_ms == t_now * 1000 + clockOffset
        slot == (now_ms \div debounceInterval) * debounceInterval
        elapsed == singletonSeconds - ((now_ms - slot) \div 1000)
    IN IF elapsed = 0 THEN 1 ELSE elapsed

\* getDebounceStartAfter, Date.now() being t_now seconds
getDebounceStartAfter(singletonSeconds, clockOffset, t_now) ==
    LET debounceInterval == singletonSeconds * 1000
        now_ms == t_now * 1000 + clockOffset
        slot == (now_ms \div debounceInterval) * debounceInterval
        elapsed == singletonSeconds - ((now_ms - slot) \div 1000)
        startAfter == IF elapsed = 0 THEN 1 ELSE elapsed
    IN IF singletonSeconds > 1 THEN startAfter + 1 ELSE startAfter

sendThrottled_next_slot(options, seconds, key) ==
    [options EXCEPT !.singletonSeconds = seconds, !.singletonNextSlot = TRUE,
                    !.singletonKey = key]

\* sendThrottled: the options createJob is called with
sendThrottled(options, seconds, key) ==
    [options EXCEPT !.singletonSeconds = seconds, !.singletonNextSlot = FALSE,
                    !.singletonKey = key]

\* sendDebounced: the options createJob is called with
sendDebounced(options, seconds, key) ==
    [options EXCEPT !.singletonSeconds = seconds, !.singletonNextSlot = TRUE,
                    !.singletonKey = key]

createJob_round2_next_slot_on(options, t_now) ==
    [options EXCEPT !.startAfter =
                        getDebounceStartAfter(options.singletonSeconds, clockSkew, t_now)]

\* createJob, after an insert that returned no row: the options of round 2
createJob_round2(options, t_now) ==
    [options EXCEPT !.startAfter =
                        getDebounceStartAfter(options.singletonSeconds, clockSkew, t_now),
                    !.singletonNextSlot = FALSE]

\* createJob up to its return or its recursive call: the table after the
\* insert, and either the value returned (an id, or 0 for null) or the
\* arguments of the recursive call
createJob(t, name, data, options, singletonOffset, t_now) ==
    LET result == createJob_insert(t, name, data, options, singletonOffset, t_now)
    IN IF Cardinality(result.rows) = 1
       THEN [table |-> result.table, returns |-> TRUE,
             id |-> CHOOSE i \in result.rows : TRUE,
             options |-> options, singletonOffset |-> singletonOffset]
       ELSE IF ~options.singletonNextSlot
       THEN [table |-> result.table, returns |-> TRUE, id |-> 0,
             options |-> options, singletonOffset |-> singletonOffset]
       ELSE [table |-> result.table, returns |-> FALSE, id |-> 0,
             options |-> createJob_round2(options, t_now),
             singletonOffset |-> options.singletonSeconds]

\* createJob until it returns: the table and the id (0 for null) it returns
RECURSIVE createJob_returned(_, _, _, _, _, _)
createJob_returned(t, name, data, options, singletonOffset, t_now) ==
    LET r == createJob(t, name, data, options, singletonOffset, t_now)
    IN IF r.returns THEN [table |-> r.table, id |-> r.id]
       ELSE createJob_returned(r.table, name, data, r.options, r.singletonOffset, t_now)

\* sendAfter: the options createJob is called with
sendAfter(options, after) == [options EXCEPT !.startAfter = after]

\* send: createJob, which throws when the queue does not exist
send(t, name, data, options, t_now) ==
    IF name \notin QueueNames
    THEN [table |-> t, state |-> "rejected", id |-> 0]
    ELSE LET r == createJob(t, name, data, options, 0, t_now)
         IN [table |-> r.table, state |-> "fulfilled", id |-> r.id]

\* the order in which the subscription table returns its rows
SubscriptionOrder == <<"p", "h", "x", "dl">>

\* getQueuesForEvent: the names of the subscriptions to event
getQueuesForEvent(subs, event) ==
    SelectSeq(SubscriptionOrder, LAMBDA n : <<event, n>> \in subs)

publish_to_every_subscriber(subs, event) ==
    SelectSeq(SubscriptionOrder, LAMBDA n : \E e \in {sub[1] : sub \in subs} : <<e, n>> \in subs)

\* publish: the queue names it invokes send for, one send per row
publish(subs, event) ==
    LET rows == getQueuesForEvent(subs, event)
    IN [k \in DOMAIN rows |-> rows[k]]

\* Promise.allSettled: pending while one of the promises is, then fulfilled
\* whatever their outcomes
allSettled(promises) ==
    IF \E k \in DOMAIN promises : promises[k].state = "pending"
    THEN "pending" ELSE "fulfilled"

\* resolveWithinSeconds: the seconds after which the timer rejects
resolveWithinSeconds(seconds) == (Max(1, seconds) * 1000) \div 1000

\* what a handler returns or throws, and the rejection of the timer
HandlerResult == [kind |-> "scalar", msg |-> "out"]
HandlerError == [kind |-> "error", msg |-> "handler threw"]
TimeoutError == [kind |-> "error", msg |-> "handler execution exceeded"]
Undefined == [kind |-> "undefined", msg |-> ""]

\* onFetch: maxExpiration of a batch
maxExpiration(t, ids) ==
    IF ids = {} THEN 0
    ELSE CHOOSE m \in {t[i].expire_in : i \in ids} : \A i \in ids : t[i].expire_in <= m

onFetch_completing(name, jobIds, outcome) ==
    [op |-> "complete", name |-> name, ids |-> jobIds,
     data |-> IF Cardinality(jobIds) = 1 THEN HandlerResult ELSE Undefined]

onFetch_failing_one(name, jobIds, outcome) ==
    IF outcome = "resolved"
    THEN [op |-> "complete", name |-> name, ids |-> jobIds,
          data |-> IF Cardinality(jobIds) = 1 THEN HandlerResult ELSE Undefined]
    ELSE [op |-> "fail", name |-> name,
          ids |-> {CHOOSE i \in jobIds : \A j \in jobIds : i <= j},
          data |-> IF outcome = "timeout" THEN TimeoutError ELSE HandlerError]

onFetch_unreported(name, jobIds, outcome) ==
    [op |-> IF outcome = "resolved" THEN "complete" ELSE "fail", name |-> name, ids |-> {},
     data |-> Undefined]

onFetch_failing(name, jobIds, outcome) ==
    [op |-> "fail", name |-> name, ids |-> jobIds, data |-> HandlerError]

\* onFetch, once the race of handler and timer is decided: the call it makes
\* and does not wait for
onFetch(name, jobIds, outcome) ==
    IF outcome = "resolved"
    THEN [op |-> "complete", name |-> name, ids |-> jobIds,
          data |-> IF Cardinality(jobIds) = 1 THEN HandlerResult ELSE Undefined]
    ELSE [op |-> "fail", name |-> name, ids |-> jobIds,
          data |-> IF outcome = "timeout" THEN TimeoutError ELSE HandlerError]

failWip_completing(name, jobIds) ==
    [op |-> "complete", name |-> name, ids |-> jobIds,
     data |-> [kind |-> "scalar", msg |-> "pg-boss shut down while active"]]

\* failWip: the call it makes for a worker with jobs in flight
failWip(name, jobIds) ==
    [op |-> "fail", name |-> name, ids |-> jobIds,
     data |-> [kind |-> "scalar", msg |-> "pg-boss shut down while active"]]

NoError == "<none>"
StoppedError == "Workers are disabled. pg-boss is stopped"

NewWorker(name, batchSize) ==
    [name |-> name, batchSize |-> batchSize, state |-> "active", pc |-> "sleep",
     jobs |-> {}, invoked |-> 0, timeout |-> 0, rejected |-> FALSE]

watch_without_check(m, ws, w, name, batchSize) ==
    [error |-> NoError,
     manager |-> [m EXCEPT !.registry = Append(@, w)],
     workers |-> [ws EXCEPT ![w] = NewWorker(name, batchSize)]]

\* watch: throws when the manager is stopped, else registers a new worker
\* under the id w and starts it
watch(m, ws, w, name, batchSize) ==
    IF m.stopped
    THEN [error |-> StoppedError, manager |-> m, workers |-> ws]
    ELSE [error |-> NoError,
          manager |-> [m EXCEPT !.registry = Append(@, w)],
          workers |-> [ws EXCEPT ![w] = NewWorker(name, batchSize)]]

\* the argument of offWork: a queue name, or an object with a worker id
ByName(name) == [kind |-> "name", name |-> name, id |-> NoKey]
ById(id) == [kind |-> "id", name |-> NoKey, id |-> id]

offWork_unfiltered(m, ws, value) ==
    {m.registry[i] : i \in {k \in DOMAIN m.registry :
        IF value.kind = "name" THEN ws[m.registry[k]].name = value.name
        ELSE m.registry[k] = value.id}}

\* offWork: the workers it stops and, once all of them have stopped, removes
offWork(m, ws, value) ==
    {m.registry[i] : i \in {k \in DOMAIN m.registry :
        /\ IF value.kind = "name" THEN ws[m.registry[k]].name = value.name
           ELSE m.registry[k] = value.id
        /\ ws[m.registry[k]].state \notin {"stopping", "stopped"}}}

stop_every_worker(ws) == {w \in DOMAIN ws : ws[w].state = "active"}

\* stop: the workers it calls offWork for and that offWork stops
stop(ws) ==
    {w \in DOMAIN ws : ws[w].state = "active" /\ ws[w].name \notin INTERNAL_QUEUES}

fetch_returning_selected(t, selected, t_now) ==
    LET result == fetchNextJob_update(t, selected, t_now)
    IN [table |-> result.table, rows |-> selected, throws |-> FALSE]

fetch_raising(t, selected, t_now) ==
    LET result == fetchNextJob_update(t, selected, t_now)
    IN [table |-> result.table, rows |-> result.rows, throws |-> ~result.ok]

\* fetch, once its statement has picked and locked `selected`: a statement the
\* database rejects is swallowed and the call returns no rows
fetch(t, selected, t_now) ==
    LET result == fetchNextJob_update(t, selected, t_now)
    IN [table |-> result.table, rows |-> IF result.ok THEN result.rows ELSE {},
        throws |-> FALSE]

\* the error of getQueueCache, which a fetch call throws, and the error of
\* the fetch statement, which it swallows
QueueMissing == "Queue does not exist"
FetchRejected == "duplicate key value violates unique constraint"

\* onError: the error event the manager emits for worker id of queue name
onError(m, name, id, message) ==
    [m EXCEPT !.errors = @ \cup {[message |-> message, queue |-> name, worker |-> id]}]

\* getWipData: the workers of the registry that hold jobs and are not on an
\* internal queue
getWipData(m, ws) ==
    {[id |-> w, name |-> ws[w].name, state |-> ws[w].state, count |-> Cardinality(ws[w].jobs)] :
        w \in {m.registry[i] : i \in {k \in DOMAIN m.registry :
                                        /\ Cardinality(ws[m.registry[k]].jobs) > 0
                                        /\ ws[m.registry[k]].name \notin INTERNAL_QUEUES}}}

emitWip_from_2000(m, ws, name, t_now) ==
    IF name \notin INTERNAL_QUEUES /\ t_now * 1000 - m.wipTs >= 2000
    THEN [m EXCEPT !.wipEvents = Append(@, [at |-> t_now * 1000, data |-> getWipData(m, ws)]),
                   !.wipTs = t_now * 1000]
    ELSE m

\* emitWip(name), Date.now() being t_now seconds: the wip event it emits, if any
emitWip(m, ws, name, t_now) ==
    IF name \notin INTERNAL_QUEUES /\ t_now * 1000 - m.wipTs > 2000
    THEN [m EXCEPT !.wipEvents = Append(@, [at |-> t_now * 1000, data |-> getWipData(m, ws)]),
                   !.wipTs = t_now * 1000]
    ELSE m

----------------------------------------------------------------------------
(* API calls made by the embedding application *)

Callers == {"a", "b"}
Sessions == Callers

ApiQueues == {"p", "s"}
Priorities == {0, 1}
BatchSizes == {1, 2}

PlainOptions(priority) ==
    [priority |-> priority, startAfter |-> 0, singletonKey |-> NoKey,
     singletonSeconds |-> 0, singletonNextSlot |-> FALSE, expireIn |-> 0]

\* send options with expireInSeconds given
ExpireOptions(seconds) == [PlainOptions(0) EXCEPT !.expireIn = seconds]


----------------------------------------------------------------------------
(* The queue cache of the manager (manager.js:77-108) *)

\* what reading a property of null throws, and what a rejected query throws
NullError == "Cannot read properties of null"
QueryError == "query failed"

CacheQueues == {"q", "r"}

IdleRefresh == [pc |-> "idle", ok |-> FALSE, rows |-> {}]
IdleLookup == [pc |-> "idle", name |-> NoKey, found |-> FALSE, error |-> NoError]

\* getQueueCache up to its await: this.queues[name], and the return on a hit
getQueueCache_read(c, name) ==
    IF c.isNull
    THEN [IdleLookup EXCEPT !.pc = "done", !.name = name, !.error = NullError]
    ELSE IF name \in c.entries
    THEN [IdleLookup EXCEPT !.pc = "done", !.name = name, !.found = TRUE]
    ELSE [IdleLookup EXCEPT !.pc = "query", !.name = name]

\* getQueueCache after its await: the throw for a missing queue, or the fill
getQueueCache_resume(c, lookup) ==
    IF ~lookup.found
    THEN [cache |-> c, lookup |-> [lookup EXCEPT !.pc = "done", !.error = QueueMissing]]
    ELSE [cache |-> [c EXCEPT !.entries = @ \cup {lookup.name}],
          lookup |-> [lookup EXCEPT !.pc = "done"]]

\* onCacheQueues after its await: the map built from the rows, or the error
\* event
onCacheQueues_resume(c, m, refresh) ==
    IF refresh.ok
    THEN [cache |-> [c EXCEPT !.isNull = FALSE, !.entries = refresh.rows], manager |-> m]
    ELSE [cache |-> c, manager |-> onError(m, NoKey, NoKey, QueryError)]

----------------------------------------------------------------------------
(* The migration store (src/src/migrationStore.js) *)

Schema == "pgboss"

\* the version field of a statement that names no version
NoVersion == 0

\* what calling a string as a template tag throws, and what assert throws
TypeError == "is not a function"
NotFoundError == "Version not found."

\* plans.assertMigration, plans.setVersion, plans.locked: the statements and
\* the wrapping of a plan, kept as the call that has built them
assertMigration(schema, version) ==
    [sql |-> "assertMigration", schema |-> schema, version |-> version]

setVersion(schema, version) ==
    [sql |-> "setVersion", schema |-> schema, version |-> version]

locked(schema, commands) == [lock |-> schema, commands |-> commands]

NoPlan == locked(NoKey, <<>>)

\* a statement of an install or uninstall array
Sql(schema, text) == [sql |-> text, schema |-> schema, version |-> NoVersion]

flatten_unasserted(schema, commands, version) ==
    LET wrapped == commands \o <<setVersion(schema, version)>>
    IN [plan |-> locked(schema, wrapped), commands |-> wrapped]

\* flatten: unshift and push change the array handed over, which the plan
\* then holds
flatten(schema, commands, version) ==
    LET wrapped == <<assertMigration(schema, version)>> \o commands
                      \o <<setVersion(schema, version)>>
    IN [plan |-> locked(schema, wrapped), commands |-> wrapped]

\* an element of an array literal of getAll: a template literal (quasi) and,
\* where it follows another template literal with no comma in between, that
\* literal as its tag
Element(text) == [quasi |-> text, tag |-> NoKey]

\* the array literal of getAll, a few statements of each migration
getAll_literal ==
    <<[version |-> 21, previous |-> 20,
       install |-> <<Element("CREATE INDEX job_fetch"),
                     [quasi |-> "CREATE UNIQUE INDEX job_policy_short",
                      tag |-> "CREATE INDEX job_name"],
                     Element("CREATE TABLE queue")>>,
       uninstall |-> <<Element("DROP INDEX job_policy_short"),
                       Element("DROP TABLE queue")>>],
      [version |-> 20, previous |-> 19,
       install |-> <<Element("DROP INDEX job_singletonKey"),
                     Element("CREATE UNIQUE INDEX job_singletonKey LIKE")>>,
       uninstall |-> <<Element("DROP INDEX job_singletonKey"),
                       Element("CREATE UNIQUE INDEX job_singletonKey =")>>],
      [version |-> 19, previous |-> 18,
       install |-> <<Element("CREATE TABLE subscription")>>,
       uninstall |-> <<Element("DROP TABLE subscription")>>]>>

\* the evaluation of an array literal: a tagged template calls its tag
Throws(elements) == \E i \in DOMAIN elements : elements[i].tag # NoKey

Evaluate(schema, elements) ==
    [i \in DOMAIN elements |-> Sql(schema, elements[i].quasi)]

getAll(schema) ==
    IF \E i \in DOMAIN getAll_literal :
          Throws(getAll_literal[i].install) \/ Throws(getAll_literal[i].uninstall)
    THEN [error |-> TypeError, value |-> <<>>]
    ELSE [error |-> NoError,
          value |-> [i \in DOMAIN getAll_literal |->
                        [version |-> getAll_literal[i].version,
                         previous |-> getAll_literal[i].previous,
                         install |-> Evaluate(schema, getAll_literal[i].install),
                         uninstall |-> Evaluate(schema, getAll_literal[i].uninstall)]]]

\* a migration list a caller hands over: the chain 18, 19, 20, 21 with the
\* template literals of getAll as statements
Written(schema, elements, i) ==
    (IF elements[i].tag # NoKey THEN <<Sql(schema, elements[i].tag)>> ELSE <<>>)
       \o <<Sql(schema, elements[i].quasi)>>

RECURSIVE WrittenFrom(_, _, _)
WrittenFrom(schema, elements, i) ==
    IF i > Len(elements) THEN <<>>
    ELSE Written(schema, elements, i) \o WrittenFrom(schema, elements, i + 1)

GivenMigrations ==
    [i \in DOMAIN getAll_literal |->
        [version |-> getAll_literal[i].version,
         previous |-> getAll_literal[i].previous,
         install |-> WrittenFrom(Schema, getAll_literal[i].install, 1),
         uninstall |-> WrittenFrom(Schema, getAll_literal[i].uninstall, 1)]]

\* migrations = migrations || getAll(schema)
Migrations(schema, migs) ==
    IF migs.given THEN [error |-> NoError, value |-> migs.list] ELSE getAll(schema)

\* Array.prototype.find: the first index that passes, 0 when none does
find(passing) == IF passing = {} THEN 0 ELSE CHOOSE i \in passing : \A j \in passing : i <= j

Refused(error, migs) == [error |-> error, plan |-> NoPlan, list |-> migs.list]

rollback(schema, version, migs) ==
    LET all == Migrations(schema, migs)
        result == find({i \in DOMAIN all.value : all.value[i].version = version})
    IN IF all.error # NoError THEN Refused(all.error, migs)
       ELSE IF result = 0 THEN Refused(NotFoundError, migs)
       ELSE LET flat == flatten(schema, all.value[result].uninstall, all.value[result].previous)
            IN [error |-> NoError, plan |-> flat.plan,
                list |-> IF migs.given
                         THEN [migs.list EXCEPT ![result].uninstall = flat.commands]
                         ELSE migs.list]

next(schema, version, migs) ==
    LET all == Migrations(schema, migs)
        result == find({i \in DOMAIN all.value : all.value[i].previous = version})
    IN IF all.error # NoError THEN Refused(all.error, migs)
       ELSE IF result = 0 THEN Refused(NotFoundError, migs)
       ELSE LET flat == flatten(schema, all.value[result].install, all.value[result].version)
            IN [error |-> NoError, plan |-> flat.plan,
                list |-> IF migs.given
                         THEN [migs.list EXCEPT ![result].install = flat.commands]
                         ELSE migs.list]

\* sort((a, b) => a.version - b.version) of the entries kept by the filter
RECURSIVE sortByVersion(_, _)
sortByVersion(all, kept) ==
    IF kept = {} THEN <<>>
    ELSE LET first == CHOOSE i \in kept :
                         \A j \in kept : \/ all[i].version < all[j].version
                                         \/ all[i].version = all[j].version /\ i <= j
         IN <<all[first]>> \o sortByVersion(all, kept \ {first})

\* reduce: the install arrays concatenated, the version of the last entry
RECURSIVE reduceInstall(_, _)
reduceInstall(sorted, acc) ==
    IF sorted = <<>> THEN acc
    ELSE reduceInstall(Tail(sorted), [install |-> acc.install \o Head(sorted).install,
                                      version |-> Head(sorted).version])

migrate(value, version, migs) ==
    LET all == Migrations(value, migs)
        kept == {i \in DOMAIN all.value : all.value[i].previous >= version}
        result == reduceInstall(sortByVersion(all.value, kept),
                                [install |-> <<>>, version |-> version])
    IN IF all.error # NoError THEN Refused(all.error, migs)
       ELSE IF Len(result.install) = 0 THEN Refused(NotFoundError, migs)
       ELSE [error |-> NoError, plan |-> flatten(value, result.install, result.version).plan,
             list |-> migs.list]

Migrators == {"m1", "m2"}

IdleMigrator ==
    [pc |-> "idle", plan |-> NoPlan, pos |-> 0,
     undo |-> [version |-> NoVersion, applied |-> <<>>]]


WorkerIds == {"w1", "w2"}

NoWorker ==
    [name |-> NoKey, batchSize |-> 0, state |-> "none", pc |-> "none",
     jobs |-> {}, invoked |-> 0, timeout |-> 0, rejected |-> FALSE]

NoCmd == [op |-> "none", ids |-> <<>>, error |-> FALSE, requested |-> 0, affected |-> 0]

Idle == [pc |-> "idle", rows |-> {}]

LockedRows == UNION {fetching[c].rows : c \in DOMAIN fetching}

\* rows whose lock makes an UPDATE that matches them wait
Blocked(name, ids, from) == Matching(jobs, name, ids, from) \cap LockedRows # {}

\* the job operations by name
JobOps == {"complete", "fail", "cancel", "resume"}

JobCall(op, name, ids, data) ==
    CASE op = "complete" -> complete(jobs, name, ids, data, now)
      [] op = "fail" -> fail(jobs, name, ids, data, now)
      [] op = "cancel" -> cancel(jobs, name, ids, now)
      [] op = "resume" -> resume(jobs, name, ids)

\* send(name, data, options)
Send(name, priority) ==
    /\ Len(jobs) < MaxJobs
    /\ jobs' = createJob_insert(jobs, name, Len(jobs) + 1, PlainOptions(priority), 0, now).table
    /\ UNCHANGED <<sendVars, migVars, cacheVars, workVars, now, apiVars>>

\* fetch(name, {batchSize}): the statement selects and locks its rows ...
FetchBegin(c, name, batchSize) ==
    /\ fetching[c].pc = "idle"
    /\ \E S \in fetchNextJob_select(jobs, name, batchSize, LockedRows, now) :
          fetching' = [fetching EXCEPT ![c] = [pc |-> "locked", rows |-> S]]
    /\ fetched' = {}
    /\ UNCHANGED <<sendVars, migVars, cacheVars, workVars, jobs, now, cmd>>

\* ... and then updates them and commits, or is rejected
FetchCommit(c) ==
    /\ fetching[c].pc = "locked"
    /\ \E r \in {fetch(jobs, fetching[c].rows, now)} :
          /\ jobs' = r.table
          /\ fetched' = r.rows
    /\ fetching' = [fetching EXCEPT ![c] = Idle]
    /\ UNCHANGED <<sendVars, migVars, cacheVars, workVars, now, cmd>>

\* complete, fail, cancel or resume, the caller dropping the response
Call(op, name, ids) ==
    /\ ids[1] \in DOMAIN jobs /\ jobs[ids[1]].name = name
    /\ op = "cancel" => ~Blocked(name, ids, {"created", "retry", "active"})
    /\ jobs' = JobCall(op, name, ids, [kind |-> "undefined", msg |-> ""]).table
    /\ Len(jobs') <= MaxJobs
    /\ UNCHANGED <<sendVars, migVars, cacheVars, workVars, now, apiVars>>

Init ==
    /\ jobs = <<>>
    /\ now = 0
    /\ fetching = [c \in Sessions |-> Idle]
    /\ fetched = {}
    /\ cmd = NoCmd
    /\ sends = <<>>
    /\ subscriptions = {}
    /\ publishes = <<>>
    /\ manager = [stopped |-> FALSE, registry |-> <<>>, wip |-> {},
                  failWip |-> [pc |-> "idle", visited |-> {}],
                  wipTs |-> 0, wipEvents |-> <<>>, errors |-> {}, offWork |-> {}]
    /\ workers = [w \in WorkerIds |-> NoWorker]
    /\ abandoned = <<>>
    /\ reports = {}
    /\ hist = <<>>
    /\ done = <<>>
    /\ migrations = [list |-> GivenMigrations, calls |-> 0]
    /\ database = [version |-> 18, applied |-> <<>>, lock |-> NoKey]
    /\ migrators = [m \in Migrators |-> IdleMigrator]
    /\ cache = [started |-> FALSE, isNull |-> TRUE, entries |-> {}]
    /\ catalog = {}
    /\ refreshes = [i \in 1..CacheMaxRefreshes |-> IdleRefresh]
    /\ lookups = [c \in Callers |-> IdleLookup]

Next ==
    \/ \E name \in ApiQueues : Send(name, 0)
    \/ \E c \in Callers, name \in ApiQueues, b \in BatchSizes : FetchBegin(c, name, b)
    \/ \E c \in Callers : FetchCommit(c)
    \/ \E op \in JobOps, name \in ApiQueues, id \in 1..MaxJobs : Call(op, name, <<id>>)

Spec == Init /\ [][Next]_vars

----------------------------------------------------------------------------
(* SpecCmd: one caller's job operations on queue q and the responses they   *)
(* return.  cmd holds the call the last step made, if it was one of         *)
(* complete, fail, cancel and resume, and what the caller got back.         *)

\* an id, or an array of two ids (which may repeat an id)
IdArgs ==
    {<<i>> : i \in 1..CmdMaxJobs} \cup {<<i, j>> : i \in 1..CmdMaxJobs, j \in 1..CmdMaxJobs}

CmdData(op) ==
    IF op = "complete"
    THEN {[kind |-> "scalar", msg |-> "out"]}
    ELSE {[kind |-> "error", msg |-> "failed"]}

SendCmd(name) ==
    /\ Cardinality({i \in DOMAIN jobs : jobs[i].name = name}) < CmdMaxJobs
    /\ jobs' = createJob_insert(jobs, name, Len(jobs) + 1, PlainOptions(0), 0, now).table
    /\ cmd' = NoCmd
    /\ UNCHANGED <<sendVars, migVars, cacheVars, workVars, now, fetching, fetched>>

\* a fetch whose statement runs without another statement in between
FetchCmd(c, name, batchSize) ==
    /\ \E S \in fetchNextJob_select(jobs, name, batchSize, LockedRows, now) :
          jobs' = fetch(jobs, S, now).table
    /\ cmd' = NoCmd
    /\ UNCHANGED <<sendVars, migVars, cacheVars, workVars, now, fetching, fetched>>

\* complete, fail, cancel or resume: the response, or an error when the
\* database rejected the statement
CallCmd(op, name, ids, data) ==
    \E r \in {JobCall(op, name, ids, data)} :
       /\ Cardinality({i \in DOMAIN r.table : r.table[i].name # name}) <= CmdMaxDead
       /\ jobs' = r.table
       /\ cmd' = [op |-> op, ids |-> ids, error |-> ~r.ok,
                  requested |-> IF r.ok THEN r.response.requested ELSE 0,
                  affected |-> IF r.ok THEN r.response.affected ELSE 0]
       /\ UNCHANGED <<sendVars, migVars, cacheVars, workVars, now, fetching, fetched>>

NextCmd ==
    \/ SendCmd("q")
    \/ \E b \in BatchSizes : FetchCmd("a", "q", b)
    \/ \E op \in JobOps, ids \in IdArgs : \E d \in CmdData(op) : CallCmd(op, "q", ids, d)

SpecCmd == Init /\ [][NextCmd]_vars

----------------------------------------------------------------------------
(* SpecShort, SpecStately, SpecKey: callers send, insert, fetch, complete,  *)
(* fail, cancel and resume on one queue: the short queue h and the stately  *)
(* queue t (two fetching callers, batches of 1 and 2, bulk inserts), or the *)
(* standard queue u with and without a singleton key (one fetching caller). *)
(*  A fetch statement locks its rows and updates them later, so that   *)
(* other statements run in between.  cmd holds what the call of the last    *)
(* step returned, for the operations each specification observes.          *)

SingletonKeys == {NoKey, "k"}

\* cmd after a call of operation op: what it returned if op is among the
\* operations `observed`, else nothing
Observe(observed, op, returned) == IF op \in observed THEN returned ELSE NoCmd

\* send(name, data, {singletonKey}): the id of the job, or null (0)
PolicySend(name, key, observed) ==
    /\ \E r \in {createJob(jobs, name, Len(jobs) + 1,
                            [PlainOptions(0) EXCEPT !.singletonKey = key], 0, now)} :
          /\ Len(r.table) <= MaxJobs
          /\ jobs' = r.table
          /\ cmd' = Observe(observed, "send", [op |-> "send", name |-> name, id |-> r.id])
    /\ UNCHANGED <<sendVars, migVars, cacheVars, workVars, now, fetching, fetched>>

\* insert(name, jobs) with one or two jobs
PolicyInsert(name, n, conflict, observed) ==
    /\ \E r \in {insert(jobs, name, [k \in 1..n |-> Len(jobs) + k], conflict, now)} :
          /\ Len(r.table) <= MaxJobs
          /\ jobs' = r.table
          /\ cmd' = Observe(observed, "insert",
                            [op |-> "insert", name |-> name, error |-> ~r.ok, ids |-> r.ids])
    /\ UNCHANGED <<sendVars, migVars, cacheVars, workVars, now, fetching, fetched>>

\* fetch(name, {batchSize}): the statement selects and locks its rows ...
PolicyFetchBegin(c, name, batchSize) ==
    /\ fetching[c].pc = "idle"
    /\ \E S \in fetchNextJob_select(jobs, name, batchSize, LockedRows, now) :
          fetching' = [fetching EXCEPT ![c] = [pc |-> "locked", rows |-> S]]
    /\ cmd' = NoCmd
    /\ UNCHANGED <<sendVars, migVars, cacheVars, workVars, jobs, now, fetched>>

\* ... and then updates them and commits, or is rejected
PolicyFetchCommit(c, observed) ==
    /\ fetching[c].pc = "locked"
    /\ \E r \in {fetch(jobs, fetching[c].rows, now)} :
          /\ jobs' = r.table
          /\ cmd' = Observe(observed, "fetch", [op |-> "fetch", rows |-> r.rows])
    /\ fetching' = [fetching EXCEPT ![c] = Idle]
    /\ UNCHANGED <<sendVars, migVars, cacheVars, workVars, now, fetched>>

\* complete, fail, cancel or resume; a cancel waits for the locks on its rows
PolicyCall(op, name, ids, observed) ==
    /\ ids[1] \in DOMAIN jobs
    /\ op = "cancel" => ~Blocked(name, ids, {"created", "retry", "active"})
    /\ \E r \in {JobCall(op, name, ids, Undefined)} :
          /\ jobs' = r.table
          /\ cmd' = Observe(observed, op,
                            [op |-> op, ids |-> ids, error |-> ~r.ok,
                             requested |-> IF r.ok THEN r.response.requested ELSE 0,
                             affected |-> IF r.ok THEN r.response.affected ELSE 0])
    /\ UNCHANGED <<sendVars, migVars, cacheVars, workVars, now, fetching, fetched>>

NextPolicy(name, keys, callers, batchSizes, observed) ==
    \/ \E key \in keys : PolicySend(name, key, observed)
    \/ \E c \in callers, b \in batchSizes : PolicyFetchBegin(c, name, b)
    \/ \E c \in callers : PolicyFetchCommit(c, observed)
    \/ \E op \in JobOps, id \in 1..MaxJobs : PolicyCall(op, name, <<id>>, observed)

NextInsert(name, observed) ==
    \E n \in 1..2, conflict \in {"skip", "reject"} : PolicyInsert(name, n, conflict, observed)

NextShort == NextPolicy("h", {NoKey}, Callers, BatchSizes, {"send"}) \/ NextInsert("h", {"send"})

NextStately == NextPolicy("t", {NoKey}, Callers, BatchSizes, {"fail", "fetch"}) \/ NextInsert("t", {"fail", "fetch"})

NextKey == NextPolicy("u", SingletonKeys, {"a"}, {1}, {"resume"})

SpecShort == Init /\ [][NextShort]_vars

SpecStately == Init /\ [][NextStately]_vars

SpecKey == Init /\ [][NextKey]_vars

----------------------------------------------------------------------------
(* SpecThrottle, SpecDebounce: concurrent sendThrottled, or sendDebounced,  *)
(* calls with one key on the standard queue q.  A call in flight is between *)
(* two awaits; its insert statements interleave with those of the other     *)
(* calls and with the clock.                                                *)

SendKey == "k"

SendOptions(kind) ==
    IF kind = "throttled"
    THEN sendThrottled(PlainOptions(0), SendSeconds, SendKey)
    ELSE sendDebounced(PlainOptions(0), SendSeconds, SendKey)

\* sendThrottled / sendDebounced is called
SendCall(kind) ==
    /\ Len(sends) < SendMaxCalls
    /\ sends' = Append(sends, [kind |-> kind, options |-> SendOptions(kind),
                               singletonOffset |-> 0, attempts |-> <<>>,
                               returned |-> FALSE, id |-> 0])
    /\ UNCHANGED <<workVars, pubVars, migVars, cacheVars, jobs, now, apiVars>>

\* createJob of call i runs its insert and returns, or calls itself again
CreateJob(i) ==
    /\ ~sends[i].returned
    /\ \E r \in {createJob(jobs, "q", i, sends[i].options, sends[i].singletonOffset, now)} :
          /\ jobs' = r.table
          /\ sends' = [sends EXCEPT ![i] =
                [@ EXCEPT !.options = r.options,
                          !.singletonOffset = r.singletonOffset,
                          !.attempts = Append(@, [at |-> now,
                                                  singletonOffset |-> sends[i].singletonOffset,
                                                  singletonNextSlot |-> sends[i].options.singletonNextSlot,
                                                  id |-> IF Len(r.table) > Len(jobs)
                                                         THEN Len(r.table) ELSE 0]),
                          !.returned = r.returns,
                          !.id = r.id]]
    /\ UNCHANGED <<workVars, pubVars, migVars, cacheVars, now, apiVars>>

\* a second passes
Tick ==
    /\ now < SendMaxTime
    /\ now' = now + 1
    /\ UNCHANGED <<workVars, jobs, apiVars, sendVars, migVars, cacheVars>>

NextThrottle ==
    \/ SendCall("throttled")
    \/ \E i \in DOMAIN sends : CreateJob(i)
    \/ Tick

NextDebounce ==
    \/ SendCall("debounced")
    \/ \E i \in DOMAIN sends : CreateJob(i)
    \/ Tick

SpecThrottle == Init /\ [][NextThrottle]_vars

SpecDebounce == Init /\ [][NextDebounce]_vars

----------------------------------------------------------------------------
(* SpecPublish: publish calls for the event evt while queues are            *)
(* subscribed to the events evt and oth and unsubscribed.  Queue p is standard, queue h short, queue  *)
(* x has never been created.  A publish call reads the subscriptions,       *)
(* invokes its sends at once and waits; the insert of each send runs at any *)
(* later time.  The data of a job is the number of the publish call.        *)

PubSubscriptions == {<<"evt", "p">>, <<"evt", "h">>, <<"evt", "x">>, <<"oth", "dl">>}

Subscribe(event, name) ==
    /\ subscriptions' = subscriptions \cup {<<event, name>>}
    /\ UNCHANGED <<workVars, apiVars, jobs, now, migVars, cacheVars, sends, publishes>>

Unsubscribe(event, name) ==
    /\ subscriptions' = subscriptions \ {<<event, name>>}
    /\ UNCHANGED <<workVars, apiVars, jobs, now, migVars, cacheVars, sends, publishes>>

\* publish(event, data) is called, once the call before it has returned, and
\* sends its query
Publish(event) ==
    /\ Len(publishes) < PubMaxCalls
    /\ \A i \in DOMAIN publishes : publishes[i].pc = "returned"
    /\ publishes' = Append(publishes, [event |-> event, pc |-> "query", subscribed |-> {},
                                       sends |-> <<>>, result |-> "pending"])
    /\ UNCHANGED <<workVars, apiVars, jobs, now, migVars, cacheVars, sends, subscriptions>>

\* the query of publish call i returns: send is invoked for each row
PublishQuery(i) ==
    /\ publishes[i].pc = "query"
    /\ publishes' = [publishes EXCEPT ![i] =
          [@ EXCEPT !.pc = "sending",
                    !.subscribed = {sub[2] : sub \in {x \in subscriptions : x[1] = publishes[i].event}},
                    !.sends = LET names == publish(subscriptions, publishes[i].event)
                              IN [k \in DOMAIN names |->
                                     [name |-> names[k], state |-> "pending", id |-> 0]]]]
    /\ UNCHANGED <<workVars, apiVars, jobs, now, migVars, cacheVars, sends, subscriptions>>

\* send k of publish call i runs and settles
PublishSend(i, k) ==
    /\ publishes[i].pc = "sending"
    /\ publishes[i].sends[k].state = "pending"
    /\ \E r \in {send(jobs, publishes[i].sends[k].name, i, PlainOptions(0), now)} :
          /\ jobs' = r.table
          /\ publishes' = [publishes EXCEPT ![i].sends[k].state = r.state,
                                            ![i].sends[k].id = r.id]
    /\ UNCHANGED <<workVars, apiVars, now, migVars, cacheVars, sends, subscriptions>>

\* publish call i returns
PublishReturn(i) ==
    /\ publishes[i].pc = "sending"
    /\ allSettled(publishes[i].sends) # "pending"
    /\ publishes' = [publishes EXCEPT ![i].pc = "returned",
                                      ![i].result = allSettled(publishes[i].sends)]
    /\ UNCHANGED <<workVars, apiVars, jobs, now, migVars, cacheVars, sends, subscriptions>>

NextPublish ==
    \/ \E sub \in PubSubscriptions : Subscribe(sub[1], sub[2])
    \/ \E sub \in PubSubscriptions : Unsubscribe(sub[1], sub[2])
    \/ Publish("evt")
    \/ \E i \in DOMAIN publishes : PublishQuery(i)
    \/ \E i \in DOMAIN publishes : \E k \in DOMAIN publishes[i].sends : PublishSend(i, k)
    \/ \E i \in DOMAIN publishes : PublishReturn(i)

SpecPublish == Init /\ [][NextPublish]_vars

----------------------------------------------------------------------------
(* Workers.  A worker's loop (worker.js) sleeps, fetches, hands the batch   *)
(* to onFetch and starts over, until it finds itself stopping.  onFetch     *)
(* races the handler against a timer and calls complete or fail without     *)
(* waiting for the call, so that the statement reaches the database at any  *)
(* later time.                                                              *)

RECURSIVE SeqOf(_)
SeqOf(S) ==
    IF S = {} THEN <<>>
    ELSE LET i == CHOOSE x \in S : \A y \in S : x <= y IN <<i>> \o SeqOf(S \ {i})

\* the states each job has been in, after a step from table t to table t2
Track(h, t, t2) ==
    [i \in DOMAIN t2 |->
        IF i \notin DOMAIN t THEN <<t2[i].state>>
        ELSE IF t2[i].state # t[i].state THEN Append(h[i], t2[i].state)
        ELSE h[i]]

\* send(name, data, options)
SendWork(name, options) ==
    /\ Cardinality({i \in DOMAIN jobs : jobs[i].name = name}) < WorkMaxJobs
    /\ jobs' = createJob_insert(jobs, name, Len(jobs) + 1, options, 0, now).table
    /\ hist' = Track(hist, jobs, jobs')
    /\ UNCHANGED <<sendVars, migVars, cacheVars, apiVars, now, manager, workers, abandoned, reports, done>>

\* work(name, {batchSize}, handler): watch registers a worker and starts it
Work(w, name, batchSize) ==
    /\ ~manager.stopped
    /\ workers[w].state = "none"
    /\ workers' = [workers EXCEPT ![w] = [NoWorker EXCEPT !.name = name,
                                                          !.batchSize = batchSize,
                                                          !.state = "active",
                                                          !.pc = "sleep"]]
    /\ manager' = [manager EXCEPT !.registry = Append(@, w)]
    /\ UNCHANGED <<sendVars, migVars, cacheVars, apiVars, jobs, now, abandoned, reports, hist, done>>

\* the loop of worker w, not stopping, calls fetch
FetchStart(w) ==
    /\ workers[w].state = "active" /\ workers[w].pc = "sleep"
    /\ workers' = [workers EXCEPT ![w].pc = "fetch"]
    /\ UNCHANGED <<sendVars, migVars, cacheVars, apiVars, jobs, now, manager, abandoned, reports, hist, done>>

\* the fetch call of worker w ends.  If it throws, the loop hands the error
\* to onError; a batch that is not empty goes to onFetch, which emits a wip
\* event, invokes the handler and starts the timer
FetchLand(w) ==
    /\ workers[w].pc = "fetch"
    /\ IF workers[w].name \notin QueueNames
       THEN /\ jobs' = jobs
            /\ workers' = [workers EXCEPT ![w].pc = "sleep", ![w].rejected = FALSE]
            /\ manager' = onError(manager, workers[w].name, w, QueueMissing)
       ELSE \E S \in fetchNextJob_select(jobs, workers[w].name, workers[w].batchSize,
                                         LockedRows, now) :
            \E r \in {fetch(jobs, S, now)} :
               /\ jobs' = r.table
               /\ IF r.throws
                  THEN /\ workers' = [workers EXCEPT ![w].pc = "sleep", ![w].rejected = S # {}]
                       /\ manager' = onError(manager, workers[w].name, w, FetchRejected)
                  ELSE IF r.rows = {}
                  THEN /\ workers' = [workers EXCEPT ![w].pc = "sleep", ![w].rejected = S # {}]
                       /\ manager' = manager
                  ELSE /\ workers' = [workers EXCEPT
                                        ![w].pc = "handle",
                                        ![w].rejected = FALSE,
                                        ![w].jobs = r.rows,
                                        ![w].invoked = now,
                                        ![w].timeout =
                                            resolveWithinSeconds(maxExpiration(r.table, r.rows))]
                       /\ manager' = emitWip(manager, workers', workers[w].name, now)
    /\ hist' = Track(hist, jobs, jobs')
    /\ UNCHANGED <<sendVars, migVars, cacheVars, apiVars, now, abandoned, reports, done>>

\* onFetch of worker w ends with the given outcome of the race: it calls
\* complete or fail and emits a wip event
Settle(w, outcome) ==
    /\ abandoned' = IF outcome = "timeout"
                    THEN Append(abandoned, [worker |-> w, ids |-> workers[w].jobs])
                    ELSE abandoned
    /\ reports' = reports \cup
                     {onFetch(workers[w].name, workers[w].jobs, outcome) @@ [by |-> w]}
    /\ manager' = emitWip(manager, workers, workers[w].name, now)
    /\ workers' = [workers EXCEPT ![w].pc = "sleep", ![w].jobs = {},
                                  ![w].invoked = 0, ![w].timeout = 0]
    /\ UNCHANGED <<sendVars, migVars, cacheVars, apiVars, jobs, now, hist, done>>

\* the handler of worker w returns
HandlerResolves(w) == workers[w].pc = "handle" /\ Settle(w, "resolved")

\* the handler of worker w throws
HandlerThrows(w) == workers[w].pc = "handle" /\ Settle(w, "rejected")

\* the timer wins the race: the handler is abandoned
HandlerTimeout(w) ==
    /\ workers[w].pc = "handle"
    /\ now >= workers[w].invoked + workers[w].timeout
    /\ Settle(w, "timeout")

\* an abandoned handler returns or throws
HandlerSettlesLate(h) ==
    /\ h \in DOMAIN abandoned
    /\ abandoned' = SubSeq(abandoned, 1, h - 1) \o SubSeq(abandoned, h + 1, Len(abandoned))
    /\ UNCHANGED <<sendVars, migVars, cacheVars, apiVars, jobs, now, manager, workers, reports, hist, done>>

\* a complete or fail call that was made reaches the database
ReportLands(k) ==
    /\ k \in reports
    /\ \E r \in {IF k.op = "complete"
                  THEN complete(jobs, k.name, SeqOf(k.ids), k.data, now)
                  ELSE fail(jobs, k.name, SeqOf(k.ids), k.data, now)} :
          /\ jobs' = r.table
          /\ done' = done \o SeqOf({i \in DOMAIN jobs : /\ jobs[i].policy = "singleton"
                                                        /\ jobs[i].state # "completed"
                                                        /\ r.table[i].state = "completed"})
    /\ reports' = reports \ {k}
    /\ hist' = Track(hist, jobs, jobs')
    /\ manager' = IF k.by = "failWip"
                  THEN [manager EXCEPT !.failWip.pc = "next"] ELSE manager
    /\ UNCHANGED <<sendVars, migVars, cacheVars, apiVars, now, workers, abandoned>>

\* the loop of a worker that is stopping ends
WorkerExit(w) ==
    /\ workers[w].state = "stopping" /\ workers[w].pc = "sleep"
    /\ workers' = [workers EXCEPT ![w].state = "stopped"]
    /\ UNCHANGED <<sendVars, migVars, cacheVars, apiVars, jobs, now, manager, abandoned, reports, hist, done>>

\* stop(): no await of it waits for anything but its own calls
Stop ==
    /\ ~manager.stopped
    /\ manager' = [manager EXCEPT !.stopped = TRUE,
                                  !.wip = UNION {workers[w].jobs : w \in WorkerIds}]
    /\ workers' = [w \in WorkerIds |->
                      IF w \in stop(workers) THEN [workers[w] EXCEPT !.state = "stopping"]
                      ELSE workers[w]]
    /\ UNCHANGED <<sendVars, migVars, cacheVars, apiVars, jobs, now, abandoned, reports, hist, done>>

\* offWork, later: the workers it stopped have all stopped and are removed
RemoveWorkers(name) ==
    LET stopping == {w \in WorkerIds : workers[w].name = name
                                        /\ workers[w].state \in {"stopping", "stopped"}}
    IN /\ \E i \in DOMAIN manager.registry : manager.registry[i] \in stopping
       /\ \A w \in stopping : workers[w].state = "stopped"
       /\ manager' = [manager EXCEPT !.registry =
                         SelectSeq(@, LAMBDA w : w \notin stopping)]
       /\ UNCHANGED <<sendVars, migVars, cacheVars, apiVars, jobs, now, workers, abandoned, reports, hist, done>>

\* failWip(), called after stop(): it goes through the registry and for the
\* next worker with jobs in flight calls fail and waits for it
FailWip ==
    /\ manager.stopped
    /\ manager.failWip.pc \in {"idle", "next"}
    /\ LET rest == SelectSeq(manager.registry, LAMBDA w : w \notin manager.failWip.visited)
           busy == {i \in DOMAIN rest : workers[rest[i]].jobs # {}}
       IN IF busy = {}
          THEN /\ manager' = [manager EXCEPT !.failWip.pc = "done"]
               /\ UNCHANGED reports
          ELSE LET k == CHOOSE i \in busy : \A j \in busy : i <= j
               IN /\ manager' = [manager EXCEPT
                                    !.failWip.pc = "await",
                                    !.failWip.visited = @ \cup {rest[i] : i \in 1..k}]
                  /\ reports' = reports \cup
                          {failWip(workers[rest[k]].name, workers[rest[k]].jobs)
                              @@ [by |-> "failWip"]}
    /\ UNCHANGED <<sendVars, migVars, cacheVars, apiVars, jobs, now, workers, abandoned, hist, done>>

\* a second passes
TickWork ==
    /\ now < WorkMaxTime
    /\ now' = now + 1
    /\ UNCHANGED <<sendVars, migVars, cacheVars, apiVars, workVars, jobs>>

\* SpecRetry: two workers on queue r, whose handlers always throw
NextRetry ==
    \/ SendWork("r", PlainOptions(0))
    \/ Work("w1", "r", 1)
    \/ Work("w2", "r", 2)
    \/ \E w \in WorkerIds : FetchStart(w)
    \/ \E w \in WorkerIds : FetchLand(w)
    \/ \E w \in WorkerIds : HandlerThrows(w)
    \/ \E k \in reports : ReportLands(k)

SpecRetry == Init /\ [][NextRetry]_vars

\* SpecTimeout: a worker on queue p whose handler returns, throws or does
\* neither before the timer rejects; jobs expire after 1 s (the queue's
\* expire_seconds) or after 2 s
NextTimeout ==
    \/ SendWork("p", PlainOptions(0))
    \/ SendWork("p", ExpireOptions(2))
    \/ Work("w1", "p", 2)
    \/ \E w \in WorkerIds : FetchStart(w)
    \/ \E w \in WorkerIds : FetchLand(w)
    \/ \E w \in WorkerIds : HandlerResolves(w)
    \/ \E w \in WorkerIds : HandlerThrows(w)
    \/ \E w \in WorkerIds : HandlerTimeout(w)
    \/ \E h \in DOMAIN abandoned : HandlerSettlesLate(h)
    \/ \E k \in reports : ReportLands(k)
    \/ TickWork

SpecTimeout == Init /\ [][NextTimeout]_vars

\* SpecShutdown: two workers on queue q; stop() and then failWip() are
\* called while handlers run and return
NextShutdown ==
    \/ SendWork("q", PlainOptions(0))
    \/ Work("w1", "q", 1)
    \/ Work("w2", "q", 2)
    \/ \E w \in WorkerIds : FetchStart(w)
    \/ \E w \in WorkerIds : FetchLand(w)
    \/ \E w \in WorkerIds : HandlerResolves(w)
    \/ \E k \in reports : ReportLands(k)
    \/ Stop
    \/ \E w \in WorkerIds : WorkerExit(w)
    \/ RemoveWorkers("q")
    \/ FailWip

SpecShutdown == Init /\ [][NextShutdown]_vars

\* SpecStop: a worker on queue q and a worker on an internal queue; stop()
\* is called at any time.  A fetch statement returns, a handler settles and
\* a loop that is to end ends.
NextStop ==
    \/ SendWork("q", PlainOptions(0))
    \/ Work("w1", "q", 1)
    \/ Work("w2", "__pgboss__send-it", 1)
    \/ \E w \in WorkerIds : FetchStart(w)
    \/ \E w \in WorkerIds : FetchLand(w)
    \/ \E w \in WorkerIds : HandlerResolves(w)
    \/ \E k \in reports : ReportLands(k)
    \/ Stop
    \/ \E w \in WorkerIds : WorkerExit(w)
    \/ RemoveWorkers("q")

SpecStop ==
    /\ Init /\ [][NextStop]_vars
    /\ \A w \in WorkerIds :
          WF_vars(FetchLand(w)) /\ WF_vars(HandlerResolves(w)) /\ WF_vars(WorkerExit(w))

\* a second passes
TickSingleton ==
    /\ now < SingleMaxTime
    /\ now' = now + 1
    /\ UNCHANGED <<sendVars, migVars, cacheVars, apiVars, workVars, jobs>>

\* SpecSingleton: one worker with batchSize 1 on the singleton queue s,
\* whose handler always returns; jobs are sent with priority 0 or 1 at any
\* time.  The worker is started and keeps polling, statements return and
\* the handler settles.
NextSingleton ==
    \/ \E priority \in Priorities : SendWork("s", PlainOptions(priority))
    \/ Work("w1", "s", 1)
    \/ FetchStart("w1")
    \/ FetchLand("w1")
    \/ HandlerResolves("w1")
    \/ \E k \in reports : ReportLands(k)
    \/ TickSingleton

SpecSingleton ==
    /\ Init /\ [][NextSingleton]_vars
    /\ WF_vars(Work("w1", "s", 1) \/ FetchStart("w1") \/ FetchLand("w1")
                                   \/ HandlerResolves("w1"))
    /\ WF_vars(\E k \in reports : ReportLands(k))

----------------------------------------------------------------------------
(* SpecStopped: work and the four send operations are called on queue q     *)
(* before and after stop().  cmd holds the call of the last step and what   *)
(* the caller got: an error, a worker id or a job id (0 for null).          *)

SendKinds == {"send", "sendAfter", "sendThrottled", "sendDebounced"}

SendKindOptions(kind) ==
    CASE kind = "send" -> PlainOptions(0)
      [] kind = "sendAfter" -> sendAfter(PlainOptions(0), 1)
      [] kind = "sendThrottled" -> sendThrottled(PlainOptions(0), SendSeconds, SendKey)
      [] kind = "sendDebounced" -> sendDebounced(PlainOptions(0), SendSeconds, SendKey)

\* work(name, {batchSize}, handler)
WorkCall(w, name, batchSize) ==
    /\ workers[w].state = "none"
    /\ \E r \in {watch(manager, workers, w, name, batchSize)} :
          /\ manager' = r.manager
          /\ workers' = r.workers
          /\ cmd' = [op |-> "work", error |-> r.error, id |-> w]
    /\ UNCHANGED <<sendVars, migVars, cacheVars, jobs, now, fetching, fetched, abandoned, reports, hist, done>>

\* send, sendAfter, sendThrottled or sendDebounced, up to its return
SendKindCall(kind, name) ==
    /\ \E r \in {createJob_returned(jobs, name, Len(jobs) + 1, SendKindOptions(kind), 0, now)} :
          /\ Len(r.table) <= MaxJobs
          /\ jobs' = r.table
          /\ cmd' = [op |-> kind, error |-> NoError, id |-> r.id]
    /\ UNCHANGED <<sendVars, migVars, cacheVars, workVars, now, fetching, fetched>>

NextStopped ==
    \/ \E w \in WorkerIds, b \in BatchSizes : WorkCall(w, "q", b)
    \/ \E kind \in SendKinds : SendKindCall(kind, "q")
    \/ Stop

SpecStopped == Init /\ [][NextStopped]_vars

\* SpecRejected: two workers on the singleton queue s, one of them with
\* batchSize 2; handlers resolve or throw
NextRejected ==
    \/ SendWork("s", PlainOptions(0))
    \/ Work("w1", "s", 2)
    \/ Work("w2", "s", 1)
    \/ \E w \in WorkerIds : FetchStart(w)
    \/ \E w \in WorkerIds : FetchLand(w)
    \/ \E w \in WorkerIds : HandlerResolves(w)
    \/ \E w \in WorkerIds : HandlerThrows(w)
    \/ \E k \in reports : ReportLands(k)

SpecRejected == Init /\ [][NextRejected]_vars

\* SpecErrors: a worker with batchSize 2 on the standard queue p and a worker
\* on queue x, which has never been created; every handler throws
NextErrors ==
    \/ SendWork("p", PlainOptions(0))
    \/ Work("w1", "p", 2)
    \/ Work("w2", "x", 1)
    \/ \E w \in WorkerIds : FetchStart(w)
    \/ \E w \in WorkerIds : FetchLand(w)
    \/ \E w \in WorkerIds : HandlerThrows(w)
    \/ \E k \in reports : ReportLands(k)

SpecErrors == Init /\ [][NextErrors]_vars

\* SpecWip: a worker with batchSize 2 on the standard queue p and a second
\* worker on p or on the internal queue; the jobs are sent at second 0; handlers
\* resolve and their complete calls stay in flight (emitWip reads nothing
\* that they write); the clock runs long enough for two wip events
TickWip ==
    /\ now < WipMaxTime
    /\ now' = now + 1
    /\ UNCHANGED <<sendVars, migVars, cacheVars, apiVars, workVars, jobs>>

SendWip(name) ==
    /\ now = 0
    /\ Cardinality({i \in DOMAIN jobs : jobs[i].name = name}) < WipMaxJobs
    /\ SendWork(name, PlainOptions(0))

NextWip ==
    \/ \E name \in {"p"} \cup INTERNAL_QUEUES : SendWip(name)
    \/ Work("w1", "p", 2)
    \/ \E name \in {"p"} \cup INTERNAL_QUEUES : Work("w2", name, 1)
    \/ \E w \in WorkerIds : FetchStart(w)
    \/ \E w \in WorkerIds : FetchLand(w)
    \/ \E w \in WorkerIds : HandlerResolves(w)
    \/ TickWip

SpecWip == Init /\ [][NextWip]_vars

\* SpecMigration: a caller of the migration store asks for plans, with the
\* migration list it holds or without one, and two migrators run the plan
\* returned last against a schema installed at version 18
MigrationOps == {"next", "rollback", "migrate"}
CallVersions == {17, 18, 19, 20, 21, 22}

StoreCall(op, version, given) ==
    /\ migrations.calls < MigMaxCalls
    /\ LET migs == [given |-> given, list |-> migrations.list]
           r == CASE op = "next" -> next(Schema, version, migs)
                  [] op = "rollback" -> rollback(Schema, version, migs)
                  [] OTHER -> migrate(Schema, version, migs)
       IN /\ cmd' = [op |-> op, version |-> version, given |-> given,
                     fresh |-> migrations.list = GivenMigrations,
                     error |-> r.error, plan |-> r.plan]
          /\ migrations' = [list |-> r.list, calls |-> migrations.calls + 1]
    /\ UNCHANGED <<dbVars, fetching, fetched, sendVars, cacheVars, workVars, database, migrators>>

\* a migrator takes the plan returned last
RunStart(m) ==
    /\ migrators[m].pc = "idle"
    /\ cmd.op \in MigrationOps /\ cmd.error = NoError
    /\ migrators' = [migrators EXCEPT ![m].pc = "waiting", ![m].plan = cmd.plan]
    /\ UNCHANGED <<dbVars, apiVars, sendVars, cacheVars, workVars, migrations, database>>

\* the transaction of the plan obtains the advisory lock of the schema
RunLock(m) ==
    /\ migrators[m].pc = "waiting"
    /\ database.lock = NoKey
    /\ database' = [database EXCEPT !.lock = m]
    /\ migrators' = [migrators EXCEPT
                        ![m].pc = "running", ![m].pos = 1,
                        ![m].undo = [version |-> database.version,
                                     applied |-> database.applied]]
    /\ UNCHANGED <<dbVars, apiVars, sendVars, cacheVars, workVars, migrations>>

\* the next statement of the plan: the assertion fires or passes (what it
\* tests is the text plans.assertMigration has built), setVersion stores
\* its version, any other statement is applied; the transaction ends with
\* the last statement and is undone when the assertion fires
RunStep(m, fires) ==
    /\ migrators[m].pc = "running"
    /\ LET c == migrators[m].plan.commands[migrators[m].pos]
           last == migrators[m].pos = Len(migrators[m].plan.commands)
       IN /\ fires => c.sql = "assertMigration"
          /\ IF fires
             THEN /\ database' = [version |-> migrators[m].undo.version,
                                  applied |-> migrators[m].undo.applied,
                                  lock |-> NoKey]
                  /\ migrators' = [migrators EXCEPT ![m].pc = "failed"]
             ELSE /\ database' =
                        [version |-> IF c.sql = "setVersion" THEN c.version
                                     ELSE database.version,
                         applied |-> IF c.sql \in {"assertMigration", "setVersion"}
                                     THEN database.applied
                                     ELSE Append(database.applied, c),
                         lock |-> IF last THEN NoKey ELSE m]
                  /\ migrators' = [migrators EXCEPT
                                      ![m].pc = IF last THEN "done" ELSE "running",
                                      ![m].pos = @ + 1]
    /\ UNCHANGED <<dbVars, apiVars, sendVars, cacheVars, workVars, migrations>>

NextMigration ==
    \/ \E op \in MigrationOps, version \in CallVersions, given \in BOOLEAN :
          StoreCall(op, version, given)
    \/ \E m \in Migrators : RunStart(m)
    \/ \E m \in Migrators : RunLock(m)
    \/ \E m \in Migrators, fires \in BOOLEAN : RunStep(m, fires)

SpecMigration == Init /\ [][NextMigration]_vars

\* SpecCycle: two workers on the standard queue p, one of them with
\* batchSize 2; handlers resolve or throw
NextCycle ==
    \/ SendWork("p", PlainOptions(0))
    \/ Work("w1", "p", 2)
    \/ Work("w2", "p", 1)
    \/ \E w \in WorkerIds : FetchStart(w)
    \/ \E w \in WorkerIds : FetchLand(w)
    \/ \E w \in WorkerIds : HandlerResolves(w)
    \/ \E w \in WorkerIds : HandlerThrows(w)
    \/ \E k \in reports : ReportLands(k)

SpecCycle == Init /\ [][NextCycle]_vars

\* SpecCache: queues are created and deleted in the database, the manager
\* is started, its timer and start() call onCacheQueues, whose query can be
\* rejected, and two callers resolve queues through getQueueCache
CacheFrame == UNCHANGED <<dbVars, apiVars, sendVars, migVars, workers, abandoned, reports, hist, done>>

CreateQueue(name) ==
    /\ name \notin catalog
    /\ catalog' = catalog \cup {name}
    /\ UNCHANGED <<cache, refreshes, lookups, manager>>
    /\ CacheFrame

DropQueue(name) ==
    /\ name \in catalog
    /\ catalog' = catalog \ {name}
    /\ UNCHANGED <<cache, refreshes, lookups, manager>>
    /\ CacheFrame

\* start() and the interval timer: a call of onCacheQueues, up to its await
RefreshStart(i) ==
    /\ refreshes[i].pc = "idle"
    /\ \A j \in 1..(i - 1) : refreshes[j].pc # "idle"
    /\ cache' = [cache EXCEPT !.started = TRUE]
    /\ refreshes' = [refreshes EXCEPT ![i].pc = "query"]
    /\ UNCHANGED <<catalog, lookups, manager>>
    /\ CacheFrame

\* the database answers getQueues with its rows, or rejects the query
RefreshQuery(i, ok) ==
    /\ refreshes[i].pc = "query"
    /\ refreshes' = [refreshes EXCEPT ![i] = [pc |-> "answered", ok |-> ok,
                                             rows |-> IF ok THEN catalog ELSE {}]]
    /\ UNCHANGED <<cache, catalog, lookups, manager>>
    /\ CacheFrame

RefreshReturn(i) ==
    /\ refreshes[i].pc = "answered"
    /\ LET r == onCacheQueues_resume(cache, manager, refreshes[i])
       IN cache' = r.cache /\ manager' = r.manager
    /\ refreshes' = [refreshes EXCEPT ![i] = IdleRefresh]
    /\ UNCHANGED <<catalog, lookups>>
    /\ CacheFrame

\* an operation of caller c resolves queue name, after start()
Lookup(c, name) ==
    /\ cache.started
    /\ lookups[c].pc \in {"idle", "done"}
    /\ lookups' = [lookups EXCEPT ![c] = getQueueCache_read(cache, name)]
    /\ UNCHANGED <<cache, catalog, refreshes, manager>>
    /\ CacheFrame

\* the database answers getQueue(name)
LookupQuery(c) ==
    /\ lookups[c].pc = "query"
    /\ lookups' = [lookups EXCEPT ![c].pc = "answered",
                                  ![c].found = lookups[c].name \in catalog]
    /\ UNCHANGED <<cache, catalog, refreshes, manager>>
    /\ CacheFrame

LookupReturn(c) ==
    /\ lookups[c].pc = "answered"
    /\ LET r == getQueueCache_resume(cache, lookups[c])
       IN cache' = r.cache /\ lookups' = [lookups EXCEPT ![c] = r.lookup]
    /\ UNCHANGED <<catalog, refreshes, manager>>
    /\ CacheFrame

NextCache ==
    \/ \E name \in CacheQueues : CreateQueue(name)
    \/ \E name \in CacheQueues : DropQueue(name)
    \/ \E i \in 1..CacheMaxRefreshes : RefreshStart(i)
    \/ \E i \in 1..CacheMaxRefreshes, ok \in BOOLEAN : RefreshQuery(i, ok)
    \/ \E i \in 1..CacheMaxRefreshes : RefreshReturn(i)
    \/ \E c \in Callers, name \in CacheQueues : Lookup(c, name)
    \/ \E c \in Callers : LookupQuery(c)
    \/ \E c \in Callers : LookupReturn(c)

SpecCache == Init /\ [][NextCache]_vars

\* SpecStartAfter: getDebounceStartAfter is called with singletonSeconds
\* from 1 up, at every second of the clock, with clock offsets that put the
\* adjusted clock on, next to and between the whole seconds
ClockOffsets == {0 - 1, 0, 1, 500, 999}

StartAfterCall(singletonSeconds, clockOffset, t_now) ==
    /\ cmd' = [op |-> "getDebounceStartAfter", seconds |-> singletonSeconds,
               now |-> t_now * 1000 + clockOffset,
               startAfter |-> getDebounceStartAfter(singletonSeconds, clockOffset, t_now)]
    /\ UNCHANGED <<dbVars, fetching, fetched, sendVars, migVars, cacheVars, workVars>>

NextStartAfter ==
    \E singletonSeconds \in 1..DebMaxSeconds, clockOffset \in ClockOffsets, t_now \in 0..DebMaxTime :
        StartAfterCall(singletonSeconds, clockOffset, t_now)

SpecStartAfter == Init /\ [][NextStartAfter]_vars

\* SpecOffWork: two workers, on queue p or one on p and one on q; offWork is
\* called with a queue name or a worker id, any number of times, while the
\* workers fetch and handle jobs
OffWorkValues ==
    {ByName(name) : name \in {"p", "q"}} \cup {ById(id) : id \in WorkerIds \cup {"w3"}}

\* offWork up to its return: the matching workers are told to stop
OffWork(value) ==
    LET stopped == offWork(manager, workers, value)
    IN /\ cmd' = [op |-> "offWork", value |-> value, stopped |-> stopped]
       /\ workers' = [w \in WorkerIds |->
                         IF w \in stopped THEN [workers[w] EXCEPT !.state = "stopping"]
                         ELSE workers[w]]
       /\ manager' = IF stopped = {} THEN manager
                     ELSE [manager EXCEPT !.offWork = @ \cup {stopped}]
       /\ UNCHANGED <<sendVars, migVars, cacheVars, fetching, fetched, jobs, now, abandoned, reports, hist, done>>

\* the callback offWork has scheduled: every worker it has stopped has
\* stopped, and it removes them
OffWorkRemove(stopped) ==
    /\ stopped \in manager.offWork
    /\ \A w \in stopped : workers[w].state = "stopped"
    /\ manager' = [manager EXCEPT !.registry = SelectSeq(@, LAMBDA w : w \notin stopped),
                                  !.offWork = @ \ {stopped}]
    /\ UNCHANGED <<sendVars, migVars, cacheVars, apiVars, jobs, now, workers, abandoned, reports, hist, done>>

NextOffWork ==
    \/ SendWork("p", PlainOptions(0))
    \/ Work("w1", "p", 1)
    \/ \E name \in {"p", "q"} : Work("w2", name, 1)
    \/ \E w \in WorkerIds : FetchStart(w)
    \/ \E w \in WorkerIds : FetchLand(w)
    \/ \E w \in WorkerIds : HandlerResolves(w)
    \/ \E k \in reports : ReportLands(k)
    \/ \E value \in OffWorkValues : OffWork(value)
    \/ \E w \in WorkerIds : WorkerExit(w)
    \/ \E stopped \in SUBSET WorkerIds : OffWorkRemove(stopped)

SpecOffWork == Init /\ [][NextOffWork]_vars

----------------------------------------------------------------------------
(* Claims checked under Spec *)

ActiveJobs(t, name) == {i \in DOMAIN t : t[i].name = name /\ t[i].state = "active"}

\* C1: on every queue whose policy is singleton at most one job is in state
\* active, in every reachable state, whatever send, fetch (two concurrent
\* callers, batch sizes 1 and 2), complete, fail, cancel and resume do.
C1_SingletonOneActive ==
    \A n \in QueueNames :
        queueTable[n].policy = "singleton" => Cardinality(ActiveJobs(jobs, n)) <= 1

\* a fetch has locked a job of the singleton queue while another job of that
\* queue is active
C1_Witness ==
    \E c \in DOMAIN fetching, i, j \in DOMAIN jobs :
        /\ i # j
        /\ jobs[i].name = "s" /\ jobs[i].state = "active"
        /\ jobs[j].name = "s" /\ j \in fetching[c].rows

LocksDisjoint ==
    \A c, d \in DOMAIN fetching : c # d => fetching[c].rows \cap fetching[d].rows = {}

FetchEnds(c) == fetching[c].pc = "locked" /\ fetching'[c].pc = "idle"

----------------------------------------------------------------------------
(* Claims checked under SpecCmd *)

\* the states an operation takes a job from, and the states it takes it to
ValidFrom(op) ==
    CASE op = "complete" -> {"active"}
      [] op = "fail" -> {"active"}
      [] op = "cancel" -> {"created", "retry", "active"}
      [] op = "resume" -> {"completed", "cancelled", "failed"}

DiagramTo(op, row) ==
    CASE op = "complete" -> "completed"
      [] op = "fail" -> IF row.retry_count < row.retry_limit THEN "retry" ELSE "failed"
      [] op = "cancel" -> "cancelled"
      [] op = "resume" -> "created"

\* C6: a complete, fail, cancel or resume call moves exactly the jobs among
\* its ids that are in a state the diagram lets the operation start from,
\* each to the state the diagram names; it leaves every other row as it is,
\* reports requested = number of ids given and affected = number of jobs
\* moved (0 when none of the ids is in such a state: a second complete of a
\* completed job changes neither state nor completed_on nor output).
C6_CommandsFollowDiagram ==
    [][(cmd'.op \in JobOps /\ ~cmd'.error) =>
          LET ids == cmd'.ids
              valid == {i \in DOMAIN jobs :
                          /\ \E k \in DOMAIN ids : ids[k] = i
                          /\ jobs[i].name = "q"
                          /\ jobs[i].state \in ValidFrom(cmd'.op)}
          IN /\ cmd'.requested = Len(ids)
             /\ cmd'.affected = Cardinality(valid)
             /\ \A i \in DOMAIN jobs :
                   IF i \in valid
                   THEN jobs'[i].state = DiagramTo(cmd'.op, jobs[i])
                   ELSE jobs'[i] = jobs[i]
             /\ valid = {} => jobs' = jobs]_vars

\* complete has been called for a job that is completed already and has
\* reported affected = 0
C6_Witness ==
    /\ cmd.op = "complete" /\ cmd.requested = 1 /\ cmd.affected = 0
    /\ cmd.ids[1] \in DOMAIN jobs
    /\ jobs[cmd.ids[1]].state = "completed"
    /\ jobs[cmd.ids[1]].output.kind = "value"

----------------------------------------------------------------------------
(* Claims checked under SpecThrottle and SpecDebounce *)

\* the time bucket a second lies in, named by its first second
Bucket(t) == (t \div SendSeconds) * SendSeconds

Buckets == {Bucket(t) : t \in 0..SendMaxTime}

\* the calls that have returned and whose first insert ran in bucket b
ReturnedIn(b) ==
    {i \in DOMAIN sends : sends[i].returned /\ Bucket(sends[i].attempts[1].at) = b}

JobsOfCall(i) == {j \in DOMAIN jobs : jobs[j].data = i}

\* C3: of the sendThrottled calls with one key whose insert falls into one
\* time bucket, exactly one returns a job id and has created a job, the job
\* of that bucket; every other one returns null, has created no job and has
\* made exactly one insert attempt.
C3_ThrottledOnePerBucket ==
    \A b \in Buckets :
        ReturnedIn(b) # {} =>
            /\ Cardinality({i \in ReturnedIn(b) : sends[i].id # 0}) = 1
            /\ Cardinality({j \in DOMAIN jobs : jobs[j].singleton_on = b}) = 1
            /\ \A i \in ReturnedIn(b) :
                  /\ Len(sends[i].attempts) = 1
                  /\ IF sends[i].id # 0
                     THEN /\ JobsOfCall(i) = {sends[i].id}
                          /\ jobs[sends[i].id].singleton_on = b
                     ELSE JobsOfCall(i) = {}

\* three calls have returned whose insert fell into one bucket, two of them
\* null
C3_Witness ==
    \E b \in Buckets :
        /\ Cardinality(ReturnedIn(b)) >= 3
        /\ Cardinality({i \in ReturnedIn(b) : sends[i].id = 0}) >= 2

\* the jobs created by an insert that ran in bucket b
CreatedIn(b) == {j \in DOMAIN jobs : Bucket(jobs[j].created_on) = b}

----------------------------------------------------------------------------
(* Claims checked under the worker specifications *)

IsPrefix(a, b) == Len(a) <= Len(b) /\ \A i \in DOMAIN a : a[i] = b[i]

RECURSIVE Retries(_)
Retries(n) == IF n = 0 THEN <<>> ELSE <<"retry", "active">> \o Retries(n - 1)

\* created -> active -> (retry -> active) n times -> failed
RetryPath(n) == <<"created", "active">> \o Retries(n) \o <<"failed">>

Activations(h) == Cardinality({i \in DOMAIN h : h[i] = "active"})

DeadLetterJobs(j) == {d \in DOMAIN jobs : jobs[d].name = "dl" /\ jobs[d].data = jobs[j].data}

\* C5: a job of queue r (retry_limit L, dead letter queue dl) whose handler
\* always throws goes through created, active, then retry, active L times,
\* then failed; once failed it has been activated L + 1 times and exactly
\* one job with its data exists on dl, in state created; before that no job
\* with its data is on dl.
C5_RetryThenDeadLetter ==
    \A j \in DOMAIN jobs :
        jobs[j].name = "r" =>
            /\ IsPrefix(hist[j], RetryPath(jobs[j].retry_limit))
            /\ IF jobs[j].state = "failed"
               THEN /\ hist[j] = RetryPath(jobs[j].retry_limit)
                    /\ Activations(hist[j]) = jobs[j].retry_limit + 1
                    /\ Cardinality(DeadLetterJobs(j)) = 1
                    /\ \A d \in DeadLetterJobs(j) : jobs[d].state = "created"
               ELSE DeadLetterJobs(j) = {}

\* a job has failed for good after at least one retry while another job is
\* in retry
C5_Witness ==
    \E j, k \in DOMAIN jobs :
        /\ jobs[j].name = "r" /\ jobs[j].state = "failed" /\ jobs[j].retry_count >= 1
        /\ jobs[k].name = "r" /\ jobs[k].state = "retry"

\* the timer of worker w wins the race in this step
TimerWins(w) ==
    /\ workers[w].pc = "handle" /\ workers'[w].pc = "sleep"
    /\ Len(abandoned') > Len(abandoned)

\* C7: when the timer wins, max(expireInSeconds of the batch) seconds or more
\* have passed since the handler was invoked, and the one call the worker
\* makes is fail, for all job ids of the batch, with an error whose message
\* contains 'handler execution exceeded'; it makes no complete call.  When
\* the abandoned handler settles later, no call is made and no job changes.
C7_TimeoutFailsBatch ==
    [][ /\ \A w \in WorkerIds :
             TimerWins(w) =>
                /\ now >= workers[w].invoked + maxExpiration(jobs, workers[w].jobs)
                /\ \E r \in reports' :
                      /\ reports' \ reports = {r}
                      /\ r.op = "fail" /\ r.name = workers[w].name
                      /\ r.ids = workers[w].jobs
                      /\ r.data.kind = "error"
                      /\ r.data.msg = "handler execution exceeded"
                /\ jobs' = jobs
        /\ (Len(abandoned') < Len(abandoned) =>
               (reports' = reports /\ jobs' = jobs /\ workers' = workers)) ]_vars

\* a handler that was abandoned with a batch of two jobs of different
\* expiration still runs, and both jobs have left active with the timeout
\* error as output
C7_Witness ==
    \E h \in DOMAIN abandoned, j, k \in DOMAIN jobs :
        /\ abandoned[h].ids = {j, k}
        /\ jobs[j].expire_in < jobs[k].expire_in
        /\ \A i \in {j, k} : /\ jobs[i].state \in {"retry", "failed"}
                              /\ jobs[i].output.msg = "handler execution exceeded"

ShutdownOutput == [kind |-> "value", msg |-> "pg-boss shut down while active"]

\* C9: after stop(), failWip() calls fail for the jobs in flight of every
\* worker it reaches that has any, and it passes no worker that has; when
\* that statement runs, each of these jobs that is still active leaves
\* active for retry or failed with the reason 'pg-boss shut down while
\* active' as its output, and a job that is active no more (its handler has
\* settled in between and its own complete or fail got there first) stays as
\* it is; and no worker starts a fetch after stop().
C9_FailWipFailsActiveJobs ==
    [][ /\ \A k \in reports' \ reports :
             k.by = "failWip" =>
                /\ k.op = "fail"
                /\ \E w \in WorkerIds :
                      /\ workers[w].jobs # {} /\ k.ids = workers[w].jobs
                      /\ k.name = workers[w].name
        /\ ((manager.failWip.pc # "done" /\ manager'.failWip.pc = "done") =>
               \A i \in DOMAIN manager.registry :
                   manager.registry[i] \notin manager.failWip.visited =>
                       workers[manager.registry[i]].jobs = {})
        /\ \A k \in reports \ reports' :
             k.by = "failWip" =>
                \A j \in k.ids :
                    IF jobs[j].state = "active"
                    THEN /\ jobs'[j].state \in {"retry", "failed"}
                         /\ jobs'[j].output = ShutdownOutput
                    ELSE jobs'[j] = jobs[j]
        /\ (manager.stopped =>
               \A w \in WorkerIds : ~(workers[w].pc = "sleep" /\ workers'[w].pc = "fetch")) ]_vars

\* failWip() has returned; of two jobs that were in flight when stop() was
\* called one has been failed with the reason and one was completed by its
\* handler
C9_Witness ==
    /\ manager.failWip.pc = "done" /\ reports = {}
    /\ \E j, k \in manager.wip :
          /\ jobs[j].state \in {"retry", "failed"} /\ jobs[j].output = ShutdownOutput
          /\ jobs[k].state = "completed"

\* C9 as written: once stop() and failWip() are through, every job that was
\* in flight when stop() was called is in retry or failed with the reason
C9_AllInFlightFailed ==
    (manager.failWip.pc = "done" /\ reports = {}) =>
        \A j \in manager.wip :
            jobs[j].state \in {"retry", "failed"} /\ jobs[j].output = ShutdownOutput

StartsFetch(w) == workers[w].pc = "sleep" /\ workers'[w].pc = "fetch"

\* C8: once stop() has been called no worker of a queue that is not internal
\* starts a fetch (one that is in flight returns and its batch is handled),
\* and every such worker that was active then eventually reaches state
\* stopped; stop() leaves the workers of internal queues as they are.
C8_WorkersStop ==
    /\ [][/\ manager.stopped =>
               \A w \in WorkerIds :
                   workers[w].name \notin INTERNAL_QUEUES => ~StartsFetch(w)
          /\ (~manager.stopped /\ manager'.stopped) =>
               \A w \in WorkerIds :
                   IF workers[w].state = "active" /\ workers[w].name \notin INTERNAL_QUEUES
                   THEN workers'[w].state = "stopping"
                   ELSE workers'[w] = workers[w]]_vars
    /\ \A w \in WorkerIds :
          (manager.stopped /\ workers[w].state = "stopping") ~> (workers[w].state = "stopped")

\* stop() was called while a worker handled a batch; that worker has
\* stopped, the worker of the internal queue is active
C8_Witness ==
    /\ manager.stopped /\ manager.wip # {}
    /\ \E w, v \in WorkerIds :
          /\ workers[w].state = "stopped"
          /\ workers[v].state = "active" /\ workers[v].name \in INTERNAL_QUEUES

\* C8 as written: after stop() no worker starts a fetch
C8_NoFetchAfterStop ==
    [][manager.stopped => \A w \in WorkerIds : ~StartsFetch(w)]_vars

\* the jobs of queue s a fetch would work on
Waiting == FetchCandidates(jobs, "s", LockedRows, now)

\* C10: on the singleton queue s, served by one worker with batchSize 1
\* whose handler always returns, every job sent is eventually completed
\* (again and again all jobs sent so far are completed);
\* each fetch takes a job before which no other waiting job comes in the
\* order priority descending, created_on ascending, and takes it while no
\* other job of the queue is active, so that jobs are completed in the
\* order they were fetched in.
C10_SingletonDrains ==
    /\ []<>(\A j \in DOMAIN jobs : jobs[j].state = "completed")
    /\ [][\A j \in workers'["w1"].jobs \ workers["w1"].jobs :
             /\ j \in Waiting
             /\ \A i \in Waiting : ~FetchBefore(jobs[i], jobs[j])
             /\ \A i \in DOMAIN jobs : jobs[i].state # "active"
             /\ workers'["w1"].jobs = {j}]_vars
    /\ [](\A a, b \in DOMAIN done : a # b => done[a] # done[b])

\* two jobs have been completed, the one of priority 1, which was sent
\* later, first
C10_Witness ==
    /\ Len(done) >= 2
    /\ jobs[done[1]].priority > jobs[done[2]].priority
    /\ jobs[done[1]].created_on > jobs[done[2]].created_on

\* C10 as written: jobs are completed in the order priority descending,
\* created_on ascending
C10_CompletedInOrder ==
    \A a, b \in DOMAIN done : a < b => ~FetchBefore(jobs[done[b]], jobs[done[a]])

----------------------------------------------------------------------------
(* Claims checked under SpecShort, SpecStately and SpecKey *)

JobsIn(t, name, state) == {i \in DOMAIN t : t[i].name = name /\ t[i].state = state}

\* C11: on every queue whose policy is short at most one job is in state
\* created, in every reachable state, whatever send, insert, fetch, complete,
\* fail, cancel and resume of two concurrent callers do; and a send made
\* while a job of the queue is in state created returns null and leaves the
\* table as it is, while any other send creates a job and returns its id.
C11_ShortOneCreated ==
    /\ [](\A n \in QueueNames :
             queueTable[n].policy = "short" => Cardinality(JobsIn(jobs, n, "created")) <= 1)
    /\ [][cmd'.op = "send" =>
             IF JobsIn(jobs, cmd'.name, "created") # {}
             THEN cmd'.id = 0 /\ jobs' = jobs
             ELSE /\ cmd'.id = Len(jobs) + 1
                  /\ Len(jobs') = Len(jobs) + 1
                  /\ jobs'[cmd'.id].state = "created"]_vars

\* a send on the short queue has returned null: a job is in state created,
\* another job of the queue is active
C11_Witness ==
    /\ cmd.op = "send" /\ cmd.id = 0
    /\ JobsIn(jobs, "h", "created") # {}
    /\ JobsIn(jobs, "h", "active") # {}

\* C12: on every queue whose policy is stately at most one job is in each of
\* the states created, retry and active, in every reachable state; a fail
\* that would put a second job into retry and a fetch that would make a
\* second job active change nothing.
C12_StatelyOnePerState ==
    /\ [](\A n \in QueueNames :
             queueTable[n].policy = "stately" =>
                \A st \in {"created", "retry", "active"} :
                    Cardinality(JobsIn(jobs, n, st)) <= 1)
    /\ [][/\ (cmd'.op = "fail" /\ JobsIn(jobs, "t", "retry") # {}) =>
                (\A i \in DOMAIN jobs : jobs'[i].state = "retry" => jobs[i].state = "retry")
          /\ (cmd'.op = "fetch" /\ JobsIn(jobs, "t", "active") # {}) =>
                (cmd'.rows = {} /\ jobs' = jobs)]_vars

\* a fail has been rejected: the job it was called for is still active while
\* another job of the stately queue is in retry
C12_Witness ==
    /\ cmd.op = "fail" /\ cmd.error
    /\ jobs[cmd.ids[1]].state = "active"
    /\ JobsIn(jobs, "t", "retry") # {}

LiveWithKey(t, name, key) ==
    {i \in DOMAIN t : /\ t[i].name = name /\ t[i].singleton_key = key
                      /\ t[i].singleton_on = NoTime
                      /\ t[i].state \in {"created", "retry", "active", "completed"}}

\* C13: for every queue and every singleton key that is not null, at most
\* one job with that name and key, a null singleton_on and a state among
\* created, retry, active and completed exists, in every reachable state; a
\* resume of a cancelled or failed job whose key a live job holds changes
\* nothing.
C13_OneLiveJobPerKey ==
    /\ [](\A n \in QueueNames, key \in SingletonKeys \ {NoKey} :
             Cardinality(LiveWithKey(jobs, n, key)) <= 1)
    /\ [][(/\ cmd'.op = "resume"
           /\ cmd'.ids[1] \in DOMAIN jobs
           /\ jobs[cmd'.ids[1]].singleton_key # NoKey
           /\ LiveWithKey(jobs, "u", jobs[cmd'.ids[1]].singleton_key) \ {cmd'.ids[1]} # {})
             => (cmd'.error \/ cmd'.affected = 0) /\ jobs' = jobs]_vars

\* a resume of a cancelled job has been rejected: another job with its key
\* has been fetched and failed and is in retry
C13_Witness ==
    /\ cmd.op = "resume" /\ cmd.error
    /\ jobs[cmd.ids[1]].state = "cancelled"
    /\ \E i \in LiveWithKey(jobs, "u", jobs[cmd.ids[1]].singleton_key) :
          jobs[i].state = "retry"

----------------------------------------------------------------------------
(* Claims checked under SpecPublish *)

\* the jobs on queue name that publish call i has created
PublishedJobs(i, name) == {j \in DOMAIN jobs : jobs[j].name = name /\ jobs[j].data = i}

\* C14: publish invokes send exactly once for each queue that is subscribed
\* to the event when publish reads the subscriptions and for no other queue;
\* a send that returns an id has put one job on its queue, a send that
\* returns null or fails none; a send that failed leaves every other send
\* of the call able to run, and publish itself returns without an error.
C14_PublishFansOut ==
    \A i \in DOMAIN publishes :
        publishes[i].pc # "query" =>
            LET calls == publishes[i].sends
            IN /\ \A n \in publishes[i].subscribed :
                     Cardinality({k \in DOMAIN calls : calls[k].name = n}) = 1
               /\ \A k \in DOMAIN calls : calls[k].name \in publishes[i].subscribed
               /\ \A k \in DOMAIN calls :
                     IF calls[k].state = "fulfilled" /\ calls[k].id # 0
                     THEN PublishedJobs(i, calls[k].name) = {calls[k].id}
                     ELSE PublishedJobs(i, calls[k].name) = {}
               /\ \A k \in DOMAIN calls :
                     (publishes[i].pc = "sending" /\ calls[k].state = "pending")
                         => ENABLED PublishSend(i, k)
               /\ publishes[i].pc = "returned" =>
                     /\ publishes[i].result = "fulfilled"
                     /\ \A k \in DOMAIN calls : calls[k].state # "pending"

\* a publish call has returned: its send to the missing queue x has failed,
\* its send to queue p has created a job, its send to the short queue h
\* has returned null
C14_Witness ==
    \E i \in DOMAIN publishes :
        /\ publishes[i].pc = "returned"
        /\ \E k \in DOMAIN publishes[i].sends :
              publishes[i].sends[k].name = "x" /\ publishes[i].sends[k].state = "rejected"
        /\ \E k \in DOMAIN publishes[i].sends :
              publishes[i].sends[k].name = "p" /\ publishes[i].sends[k].id # 0
        /\ \E k \in DOMAIN publishes[i].sends :
              /\ publishes[i].sends[k].name = "h"
              /\ publishes[i].sends[k].state = "fulfilled" /\ publishes[i].sends[k].id = 0

\* C14 as stated: once publish has returned, one job it created is on each
\* subscribed queue whose send did not fail
C14_OneJobOnEachQueue ==
    \A i \in DOMAIN publishes :
        publishes[i].pc = "returned" =>
            \A k \in DOMAIN publishes[i].sends :
                publishes[i].sends[k].state = "fulfilled" =>
                    Cardinality(PublishedJobs(i, publishes[i].sends[k].name)) = 1

----------------------------------------------------------------------------
(* Claims checked under SpecStopped *)

\* C15: after stop() has been called, work fails with the error 'Workers
\* are disabled. pg-boss is stopped', registers no worker and changes no job;
\* the send operations are not refused: each returns the id of the job it
\* has created, or null when a unique index has absorbed its insert.
C15_StoppedRefusesWork ==
    [][ /\ (manager.stopped /\ cmd'.op = "work") =>
              /\ cmd'.error = StoppedError
              /\ workers' = workers /\ manager' = manager /\ jobs' = jobs
        /\ (manager.stopped /\ cmd'.op \in SendKinds) =>
              /\ cmd'.error = NoError
              /\ workers' = workers /\ manager' = manager
              /\ IF cmd'.id = 0 THEN jobs' = jobs
                 ELSE /\ cmd'.id \in DOMAIN jobs' \ DOMAIN jobs
                      /\ jobs'[cmd'.id].name = "q" /\ jobs'[cmd'.id].state = "created" ]_vars

\* work has been refused after stop(): its worker is not registered, the
\* worker registered before stop() is stopping, and a job has been sent
C15_Witness ==
    /\ manager.stopped
    /\ cmd.op = "work" /\ cmd.error = StoppedError
    /\ workers[cmd.id].state = "none"
    /\ Len(manager.registry) = 1 /\ workers[manager.registry[1]].state = "stopping"
    /\ jobs # <<>>

\* C15 as stated: after stop() a send operation fails with an error and
\* creates no job
C15_StoppedRefusesSend ==
    [][(manager.stopped /\ cmd'.op \in SendKinds) =>
          (cmd'.error # NoError /\ jobs' = jobs)]_vars

----------------------------------------------------------------------------
(* Claims checked under SpecRejected and SpecErrors *)

\* the fetch call of worker w ends in this step
WorkerFetchEnds(w) == workers[w].pc = "fetch" /\ workers'[w].pc # "fetch"

\* C16: a fetch whose statement the database rejects returns an empty batch:
\* the worker goes back to sleep, still active, with no job in flight; no
\* job has changed, no call has been made and no event has been emitted.  A
\* fetch that returns jobs has made each of them active.
C16_RejectedFetchIsEmpty ==
    [][\A w \in WorkerIds :
          (WorkerFetchEnds(w) /\ workers[w].name \in QueueNames) =>
              IF workers'[w].rejected
              THEN /\ FetchCandidates(jobs, workers[w].name, LockedRows, now) # {}
                   /\ jobs' = jobs /\ manager' = manager /\ reports' = reports
                   /\ workers'[w] = [workers[w] EXCEPT !.pc = "sleep", !.rejected = TRUE]
                   /\ workers'[w].state = "active" /\ workers'[w].jobs = {}
              ELSE /\ manager'.errors = manager.errors
                   /\ \A j \in workers'[w].jobs :
                         jobs[j].state \in {"created", "retry"} /\ jobs'[j].state = "active"
                   /\ \A j \in DOMAIN jobs : j \notin workers'[w].jobs => jobs'[j] = jobs[j]]_vars

\* the last fetch of the worker with batchSize 2 was rejected, two jobs of
\* the queue still wait, and the worker has started its next fetch
C16_Witness ==
    /\ workers["w1"].rejected /\ workers["w1"].pc = "fetch"
    /\ Cardinality({j \in DOMAIN jobs : jobs[j].name = "s"
                                         /\ jobs[j].state \in {"created", "retry"}}) = 2
    /\ manager.errors = {}

\* the handler of worker w settles in this step
HandlerSettles(w) == workers[w].pc = "handle" /\ workers'[w].pc # "handle"

\* C17: when the handler throws, onFetch calls fail with the handler's error
\* for the queue and exactly the jobs of the batch and makes no other call,
\* complete is never called, and no error event is emitted for it: error
\* events come from fetch calls that throw and carry the queue name and the
\* id of the worker.
C17_HandlerErrorFailsBatch ==
    /\ [][\A w \in WorkerIds :
             HandlerSettles(w) =>
                 /\ reports' \ reports =
                       {[op |-> "fail", name |-> workers[w].name, ids |-> workers[w].jobs,
                         data |-> HandlerError, by |-> w]}
                 /\ workers[w].jobs # {} /\ workers'[w].jobs = {}
                 /\ manager'.errors = manager.errors
                 /\ jobs' = jobs]_vars
    /\ [](\A k \in reports : k.op = "fail")
    /\ [](\A e \in manager.errors :
             /\ e.worker \in WorkerIds /\ workers[e.worker].name = e.queue
             /\ e.queue \notin QueueNames /\ e.message = QueueMissing)

\* the handler of the worker on queue p has thrown for a batch of two jobs,
\* which have both failed; the only error event is that of the worker on
\* the missing queue x
C17_Witness ==
    /\ Cardinality({j \in DOMAIN jobs : jobs[j].name = "p" /\ jobs[j].state = "failed"
                                         /\ jobs[j].output.msg = HandlerError.msg}) = 2
    /\ Cardinality({j \in DOMAIN jobs : jobs[j].name = "p"}) = 2
    /\ Len(hist[CHOOSE j \in DOMAIN jobs : jobs[j].name = "p"]) = 3
    /\ manager.errors = {[message |-> QueueMissing, queue |-> "x", worker |-> "w2"]}

\* C17 as stated: when the handler throws, the manager emits an error event
\* with the queue name and the worker id
C17_HandlerErrorEmitsEvent ==
    [][\A w \in WorkerIds :
          HandlerSettles(w) =>
              \E e \in manager'.errors : e.queue = workers[w].name /\ e.worker = w]_vars

----------------------------------------------------------------------------
(* Claims checked under SpecWip *)

\* worker w receives a batch or settles one in this step
BatchStep(w) ==
    \/ workers[w].pc = "fetch" /\ workers'[w].pc = "handle"
    \/ workers[w].pc = "handle" /\ workers'[w].pc # "handle"

\* C20: two consecutive wip events are more than 2000 ms apart, whatever the
\* workers and batches; a batch of an internal queue, received or settled,
\* emits none; and the snapshot of an event lists exactly the registered
\* workers that hold a job at that moment and are not on an internal queue,
\* each with the number of jobs it holds.
C20_WipThrottled ==
    /\ [](\A i \in DOMAIN manager.wipEvents :
             /\ i > 1 => manager.wipEvents[i].at - manager.wipEvents[i - 1].at > 2000
             /\ \A d \in manager.wipEvents[i].data :
                   d.count > 0 /\ d.name \notin INTERNAL_QUEUES)
    /\ [][/\ Len(manager'.wipEvents) \in {Len(manager.wipEvents), Len(manager.wipEvents) + 1}
          /\ \A w \in WorkerIds :
                (BatchStep(w) /\ workers[w].name \in INTERNAL_QUEUES) =>
                    manager'.wipEvents = manager.wipEvents
          /\ \A w \in WorkerIds :
                (BatchStep(w) /\ Len(manager'.wipEvents) > Len(manager.wipEvents)) =>
                    LET e == manager'.wipEvents[Len(manager'.wipEvents)]
                        held == [v \in WorkerIds |-> IF v = w THEN workers[w].jobs \cup workers'[w].jobs
                                                     ELSE workers[v].jobs]
                    IN /\ e.at = now * 1000
                       /\ {d.id : d \in e.data} =
                             {v \in WorkerIds : held[v] # {} /\ workers[v].name \notin INTERNAL_QUEUES}
                       /\ \A d \in e.data : /\ d.count = Cardinality(held[d.id])
                                            /\ d.name = workers[d.id].name]_vars

\* the worker on p has emitted a wip event on receiving its job and a
\* second one, three seconds later, on settling it, while the worker on the
\* internal queue holds a job and is in neither snapshot
C20_Witness ==
    /\ Len(manager.wipEvents) = 2
    /\ manager.wipEvents[2].at - manager.wipEvents[1].at = 3000
    /\ manager.wipEvents[2].at = now * 1000
    /\ workers["w2"].name \in INTERNAL_QUEUES /\ workers["w2"].jobs # {}
    /\ workers["w1"].pc = "sleep"
    /\ \A i \in 1..2 : manager.wipEvents[i].data =
          {[id |-> "w1", name |-> "p", state |-> "active", count |-> 1]}

----------------------------------------------------------------------------
(* Claims checked under SpecMigration *)

\* the versions of the chain of getAll, its base and its head
ChainVersions == {getAll_literal[i].version : i \in DOMAIN getAll_literal}
                    \cup {getAll_literal[i].previous : i \in DOMAIN getAll_literal}
HeadVersion == CHOOSE v \in ChainVersions : \A u \in ChainVersions : u <= v

\* a plan without its first and its last statement
Unwrapped(commands) == SubSeq(commands, 2, Len(commands) - 1)

\* the statements of next applied again and again from version up to the
\* head, over the chain as a caller hands it over
RECURSIVE RepeatedNext(_)
RepeatedNext(version) ==
    LET r == next(Schema, version, [given |-> TRUE, list |-> GivenMigrations])
    IN IF r.error # NoError THEN <<>>
       ELSE Unwrapped(r.plan.commands)
               \o RepeatedNext(r.plan.commands[Len(r.plan.commands)].version)

\* a call of next or migrate on the chain: without a migration list, or with
\* a list no call has changed yet
ChainCall ==
    /\ cmd.op \in {"next", "migrate"}
    /\ cmd.given => cmd.fresh

\* C18 as stated: for a version of the chain below its head, migrate returns
\* the install statements of repeated next up to the head, in that order,
\* and targets the head; for the head and for a version outside the chain,
\* migrate and next fail with NotFound and return no plan
C18_MigrateIsRepeatedNext ==
    ChainCall =>
        IF cmd.version \in ChainVersions \ {HeadVersion}
        THEN cmd.op = "migrate" =>
                /\ cmd.error = NoError
                /\ Unwrapped(cmd.plan.commands) = RepeatedNext(cmd.version)
                /\ cmd.plan.commands[Len(cmd.plan.commands)].version = HeadVersion
        ELSE cmd.error = NotFoundError /\ cmd.plan = NoPlan

\* a plan has been returned
PlanReturned == cmd.op \in MigrationOps /\ cmd.error = NoError

\* the version a plan leads to, by the chain
TargetVersion ==
    CASE cmd.op = "next" -> cmd.version + 1
      [] cmd.op = "rollback" -> cmd.version - 1
      [] OTHER -> HeadVersion

\* the statements of a plan other than assertions and version updates
Statements(commands) ==
    SelectSeq(commands, LAMBDA c : c.sql \notin {"assertMigration", "setVersion"})

----------------------------------------------------------------------------
(* Claims checked under SpecCycle *)

\* the complete and fail calls made for job j that have not reached the
\* database
Pending(j) == {k \in reports : j \in k.ids}

\* C21: a worker runs one fetch and one handler at a time: it holds a batch
\* exactly while its handler runs, and starts a fetch only with no batch in
\* hand and after complete or fail has been called for the jobs of its last
\* batch.  The call is not awaited, so it can be pending when the next
\* fetch starts; an active job is either in the batch one worker holds or
\* named by one pending call of the worker that fetched it, never both.
C21_OneCycleAtATime ==
    /\ [](\A w \in WorkerIds :
             /\ workers[w].pc = "handle" <=> workers[w].jobs # {}
             /\ \A v \in WorkerIds \ {w} : workers[w].jobs \cap workers[v].jobs = {})
    /\ [](\A j \in DOMAIN jobs :
             jobs[j].state = "active" =>
                LET holders == {w \in WorkerIds : j \in workers[w].jobs}
                IN /\ Cardinality(holders) + Cardinality(Pending(j)) = 1
                   /\ \A k \in Pending(j) : k.by \in WorkerIds /\ workers[k.by].pc # "none")
    /\ [][\A w \in WorkerIds :
             (workers[w].pc = "handle" /\ workers'[w].pc # "handle") =>
                 /\ workers'[w].pc = "sleep"
                 /\ \A j \in workers[w].jobs :
                       \E k \in reports' \ reports : k.by = w /\ j \in k.ids]_vars

\* the worker with batchSize 2 has started its next fetch while the complete
\* call for its last batch of two jobs is pending and both jobs are active
C21_Witness ==
    /\ workers["w1"].pc = "fetch"
    /\ \E k \in reports :
          /\ k.by = "w1" /\ k.op = "complete" /\ Cardinality(k.ids) = 2
          /\ \A j \in k.ids : jobs[j].state = "active"

\* C21 as stated: when a worker starts a fetch, no complete or fail call of
\* that worker is pending and none of the jobs it has fetched is active
C21_ReportAppliedBeforeFetch ==
    [][\A w \in WorkerIds :
          (workers[w].pc = "sleep" /\ workers'[w].pc = "fetch") =>
              /\ \A k \in reports : k.by # w
              /\ \A j \in DOMAIN jobs :
                    (\E k \in reports : k.by = w /\ j \in k.ids) => jobs[j].state # "active"]_vars

----------------------------------------------------------------------------
(* Claims checked under SpecCache *)

\* C22 as stated: after start(), a call that resolves a queue through the
\* cache ends with the queue, from the cache or from the database, or with
\* 'Queue does not exist' when the database has no such queue, whatever the
\* refreshes have done so far
C22_CacheFindsQueues ==
    \A c \in Callers :
        lookups[c].pc = "done" =>
            \/ lookups[c].error = NoError /\ lookups[c].found
            \/ lookups[c].error = QueueMissing /\ ~lookups[c].found

----------------------------------------------------------------------------
(* Claims checked under SpecStartAfter *)

\* C23: for singletonSeconds >= 1 and the adjusted clock now (ms),
\* getDebounceStartAfter returns s with 1 <= s <= singletonSeconds + 1, and
\* s >= 2 when singletonSeconds > 1, such that now + s * 1000 lies in the
\* bucket after the one of now: slot + W <= now + s * 1000 < slot + 2 * W
\* for W = singletonSeconds * 1000 and slot = floor(now / W) * W.
C23_StartAfterInNextBucket ==
    cmd.op = "getDebounceStartAfter" =>
        LET W == cmd.seconds * 1000
            slot == (cmd.now \div W) * W
            s == cmd.startAfter
        IN /\ 1 <= s /\ s <= cmd.seconds + 1
           /\ cmd.seconds > 1 => s >= 2
           /\ slot + W <= cmd.now + s * 1000
           /\ cmd.now + s * 1000 < slot + 2 * W

\* one millisecond before the end of a bucket of two seconds the function
\* returns 2, which leads to the last millisecond of the next bucket
C23_Witness ==
    /\ cmd.op = "getDebounceStartAfter"
    /\ cmd.seconds = 2 /\ cmd.now = 1999 /\ cmd.startAfter = 2

----------------------------------------------------------------------------
(* Claims checked under SpecOffWork *)

Registered == {manager.registry[i] : i \in DOMAIN manager.registry}

\* worker w matches the argument of offWork
Matches(w, value) ==
    IF value.kind = "name" THEN workers[w].name = value.name ELSE w = value.id

\* C24: every worker that is active or stopping is in the registry, once.
\* A step that tells a worker to stop is an offWork call whose argument the
\* worker matches, and the call tells every registered active worker that
\* matches to stop; a call that no registered active worker matches changes
\* nothing.  A worker leaves the registry only when it has stopped, together
\* with the workers one offWork call has stopped, all of them stopped; a
\* worker that has stopped is not stopped again.
C24_OffWorkStopsThenRemoves ==
    /\ [](\A w \in WorkerIds :
             /\ workers[w].state \in {"active", "stopping"} => w \in Registered
             /\ Cardinality({i \in DOMAIN manager.registry : manager.registry[i] = w}) <= 1)
    /\ [][\A w \in WorkerIds :
             /\ (workers[w].state # "stopping" /\ workers'[w].state = "stopping") =>
                   /\ workers[w].state = "active"
                   /\ cmd'.op = "offWork" /\ Matches(w, cmd'.value)
                   /\ w \in cmd'.stopped /\ cmd'.stopped \in manager'.offWork
             /\ (w \in Registered /\ w \notin {manager'.registry[i] : i \in DOMAIN manager'.registry}) =>
                   \E stopped \in manager.offWork :
                      /\ w \in stopped
                      /\ \A v \in stopped : workers[v].state = "stopped"
                      /\ Registered \ {manager'.registry[i] : i \in DOMAIN manager'.registry} = stopped
             /\ workers[w].state = "stopped" => workers'[w].state = "stopped"]_vars
    /\ [][(cmd'.op = "offWork" /\ cmd' # cmd) =>
             /\ cmd'.stopped = {w \in Registered : /\ Matches(w, cmd'.value)
                                                  /\ workers[w].state = "active"}
             /\ \A w \in cmd'.stopped : workers'[w].state = "stopping"
             /\ \A w \in WorkerIds \ cmd'.stopped : workers'[w] = workers[w]
             /\ manager'.registry = manager.registry
             /\ cmd'.stopped = {} => manager' = manager]_vars

\* offWork('p') has stopped both workers; the first has stopped and stays
\* in the registry while the second finishes its batch, and a second
\* offWork('p') has found no worker to stop
C24_Witness ==
    /\ cmd.op = "offWork" /\ cmd.value = ByName("p") /\ cmd.stopped = {}
    /\ manager.offWork = {{"w1", "w2"}}
    /\ workers["w1"].state = "stopped" /\ workers["w1"].name = "p"
    /\ workers["w2"].state = "stopping" /\ workers["w2"].pc = "handle"
    /\ Registered = {"w1", "w2"}

----------------------------------------------------------------------------
(* Claims checked under SpecMigration: the migration list handed over *)

\* the positions of the statements of kind sql in a plan
Positions(commands, sql) == {i \in DOMAIN commands : commands[i].sql = sql}

\* C25 as stated: next, rollback and migrate leave the migration list they
\* are given as it was, and a plan made from it holds the version assertion
\* once, as its first statement, and setVersion once, as its last
C25_MigrationsUnchanged ==
    /\ migrations.list = GivenMigrations
    /\ (PlanReturned /\ cmd.given) =>
          /\ Positions(cmd.plan.commands, "assertMigration") = {1}
          /\ Positions(cmd.plan.commands, "setVersion") = {Len(cmd.plan.commands)}
====
